---- MODULE Spec2Model ----
(***************************************************************************)
(* A model of the signing core of the popsigner Rust SDK (sdk-rust):       *)
(*   - SignClient::sign_batch           (src/sdk-rust/src/sign.rs)         *)
(*   - impl Signer for POPSignerSigner  (src/sdk-rust/src/celestia.rs)     *)
(*   - POPSignerSigner::resolve_key     (src/sdk-rust/src/celestia.rs)     *)
(*   - POPSignerSigner::new, ClientBuilder::build, SignerError::from,      *)
(*     derive_celestia_address, bech32_encode (src/sdk-rust/src/celestia.rs)*)
(*   - Client::parse_error              (src/sdk-rust/src/client.rs)       *)
(* The remote custodian is the environment: every awaited request gets a   *)
(* nondeterministic reply drawn from a small set.                          *)
(***************************************************************************)
EXTENDS Integers, Sequences, FiniteSets, TLC

VARIABLES
    \* ---- SignClient::sign_batch (one call at a time) ----
    bpc,        \* position of the call: "idle", "awaiting", "done"
    request,    \* the BatchSignRequest.requests of the call
    posted,     \* the remote requests this call has issued so far
    response,   \* what client.post returned to this call
    ret,        \* the value the call returned
    \* ---- impl Signer for POPSignerSigner (concurrent callers) ----
    signer,     \* the POPSignerSigner: key_id, key_name, public_key, celestia_address
    spc,        \* per caller: "idle", "awaiting", "done"
    sop,        \* per caller: the operation, "sign" or "sign_digest"
    sarg,       \* per caller: msg / digest
    sreply,     \* per caller: what SignClient's client.post returned
    sret,       \* per caller: the value the operation returned
    calls,      \* every operation called so far: <<caller, op, length>>
    sposted,    \* every remote sign request issued so far
    \* ---- POPSignerSigner::resolve_key and the custodian's keys ----
    custodian,  \* the keys the custodian holds, in listing order
    changes,    \* keys created or deleted at the custodian so far
    rpc,        \* position of the call: "idle", "get", "list1", "list2", "done"
    key_name_or_id,     \* the argument of the call
    rlog,       \* the remote requests this call has issued so far
    rreplies,   \* what each of them returned
    available_names,    \* the local of that name (celestia.rs 233)
    rret        \* the value the call returned
VARIABLES lower, mapped
VARIABLES addr_fn, addr_hrp, addr_data, converted, hashed, addr_ret
VARIABLES cpc, popsigner_key, resolved, derive_log, new_ret, build_ret
VARIABLES http_status, answer, parsed

batchVars == <<bpc, request, posted, response, ret>>
signerVars == <<signer, spc, sop, sarg, sreply, sret, calls, sposted>>
resolveVars == <<custodian, changes, rpc, key_name_or_id, rlog, rreplies,
                 available_names, rret>>

convVars == <<lower, mapped>>
addressVars == <<addr_fn, addr_hrp, addr_data, converted, hashed, addr_ret>>
buildVars == <<cpc, popsigner_key, resolved, derive_log, new_ret, build_ret>>
parseVars == <<http_status, answer, parsed>>
vars == <<batchVars, signerVars, resolveVars, convVars, addressVars, buildVars, parseVars>>

(***************************************************************************)
(* Bounds of the model.                                                    *)
(***************************************************************************)
MaxItems == 2       \* items of one batch request
MaxEntries == 3     \* entries of one batch response
MaxCalls == 3       \* sign / sign_digest calls in one behaviour
MaxKeys == 2        \* keys the custodian holds at a time
MaxChanges == 1     \* keys created or deleted during one behaviour

(***************************************************************************)
(* Byte strings and the base64 STANDARD engine.  Encoded text is a         *)
(* sequence of symbols: 0..63 the alphabet, Pad the '=' sign, BadSym a     *)
(* character outside the alphabet.                                         *)
(***************************************************************************)
Pad == 64
BadSym == 65

RECURSIVE Base64Encode(_)
Base64Encode(bytes) ==
    IF Len(bytes) = 0 THEN <<>>
    ELSE IF Len(bytes) = 1 THEN
        << bytes[1] \div 4, (bytes[1] % 4) * 16, Pad, Pad >>
    ELSE IF Len(bytes) = 2 THEN
        << bytes[1] \div 4,
           (bytes[1] % 4) * 16 + bytes[2] \div 16,
           (bytes[2] % 16) * 4,
           Pad >>
    ELSE
        << bytes[1] \div 4,
           (bytes[1] % 4) * 16 + bytes[2] \div 16,
           (bytes[2] % 16) * 4 + bytes[3] \div 64,
           bytes[3] % 64 >>
        \o Base64Encode(SubSeq(bytes, 4, Len(bytes)))

\* The bytes of one group of four symbols; the last group may end in padding.
QuadBytes(q) ==
    IF q[3] = Pad THEN << q[1] * 4 + q[2] \div 16 >>
    ELSE IF q[4] = Pad THEN
        << q[1] * 4 + q[2] \div 16, (q[2] % 16) * 16 + q[3] \div 4 >>
    ELSE
        << q[1] * 4 + q[2] \div 16,
           (q[2] % 16) * 16 + q[3] \div 4,
           (q[3] % 4) * 64 + q[4] >>

RECURSIVE Base64Bytes(_)
Base64Bytes(text) ==
    IF Len(text) = 0 THEN <<>>
    ELSE QuadBytes(SubSeq(text, 1, 4)) \o Base64Bytes(SubSeq(text, 5, Len(text)))

\* Why the engine rejects a text, or "" when it accepts it.
Base64Reject(text) ==
    LET n == Len(text) IN
    IF \E i \in 1..n : text[i] = BadSym THEN "InvalidByte"
    ELSE IF \E i \in 1..n : text[i] = Pad /\ i < n - 1 THEN "InvalidByte"
    ELSE IF n > 0 /\ text[n] # Pad /\ n > 1 /\ text[n - 1] = Pad THEN "InvalidByte"
    ELSE IF n % 4 = 1 THEN "InvalidLength"
    ELSE IF n % 4 # 0 THEN "InvalidPadding"
    ELSE IF n > 0 /\ text[n - 1] = Pad /\ text[n - 2] % 16 # 0 THEN "InvalidLastSymbol"
    ELSE IF n > 0 /\ text[n] = Pad /\ text[n - 1] # Pad /\ text[n - 1] % 4 # 0
        THEN "InvalidLastSymbol"
    ELSE ""

\* BASE64.decode: Ok(bytes) or Err(reason).
Base64Decode(text) ==
    IF Base64Reject(text) = ""
    THEN [ok |-> TRUE, bytes |-> Base64Bytes(text), why |-> ""]
    ELSE [ok |-> FALSE, bytes |-> <<>>, why |-> Base64Reject(text)]

(***************************************************************************)
(* POPSignerError (BanhBaoRingError).  One record shape for all variants;  *)
(* the fields a variant does not carry keep their default.  A message is a *)
(* sequence of text fragments.                                             *)
(***************************************************************************)
Error(kind) ==
    [kind |-> kind, code |-> "", message |-> <<>>, status_code |-> 0,
     failed |-> 0, total |-> 0]

NoError == Error("None")

Unauthorized == Error("Unauthorized")
RateLimited == Error("RateLimited")
QuotaExceeded(msg) == [Error("QuotaExceeded") EXCEPT !.message = msg]
ApiError(code, msg, status) ==
    [Error("Api") EXCEPT !.code = code, !.message = msg, !.status_code = status]
Http(msg) == [Error("Http") EXCEPT !.message = msg]
Decode(msg) == [Error("Decode") EXCEPT !.message = msg]
KeyNotFound(msg) == [Error("KeyNotFound") EXCEPT !.message = msg]
InvalidRequest(msg) == [Error("InvalidRequest") EXCEPT !.message = msg]
SigningError(msg) == [Error("SigningError") EXCEPT !.message = msg]
BatchPartialFailure(failed, total) ==
    [Error("BatchPartialFailure") EXCEPT !.failed = failed, !.total = total]

\* BanhBaoRingError::is_auth_error (error.rs 87-94)
IsAuthError(err) ==
    \/ err.kind = "Unauthorized"
    \/ err.kind = "Api" /\ err.status_code = 401
    \/ err.kind = "Api" /\ err.status_code = 403

\* Result<T>: Ok(val) or Err(err).  val is always a sequence.
Ok(val) == [ok |-> TRUE, val |-> val, err |-> NoError]
Err(e) == [ok |-> FALSE, val |-> <<>>, err |-> e]

\* The body of a non-success answer: unparseable, or {error: {code, message}}.
NoBody == [parsed |-> FALSE, code |-> "", message |-> <<>>]
ErrorBody(code, msg) == [parsed |-> TRUE, code |-> code, message |-> msg]

\* Mutant: the body's quota code is looked at before the status.
ParseErrorBodyFirst(status, body) ==
    IF body.parsed /\ body.code = "quota_exceeded" THEN QuotaExceeded(body.message)
    ELSE IF status = 401 THEN Unauthorized
    ELSE IF status = 429 THEN RateLimited
    ELSE IF body.parsed THEN ApiError(body.code, body.message, status)
    ELSE ApiError("unknown", <<"Unknown error">>, status)

\* Client::parse_error
ParseError(status, body) ==
    IF status = 401 THEN Unauthorized
    ELSE IF status = 429 THEN RateLimited
    ELSE IF body.parsed THEN
        IF body.code = "quota_exceeded" THEN QuotaExceeded(body.message)
        ELSE ApiError(body.code, body.message, status)
    ELSE ApiError("unknown", <<"Unknown error">>, status)

\* The non-success answers the service gives in this model.
Statuses == {401, 403, 404, 429, 500}
Bodies ==
    { NoBody,
      ErrorBody("quota_exceeded", <<"quota used up">>),
      ErrorBody("not_found", <<"Key does not exist">>) }

\* What Client::get / Client::post return besides data: the transport fails
\* (send or body decoding), or the service answers with a non-success status.
RequestErrors ==
    { Http(<<"error sending request">>), Http(<<"error decoding response body">>) }
    \cup { ParseError(s, b) : s \in Statuses, b \in Bodies }

(***************************************************************************)
(* SignClient::sign_batch                                                  *)
(***************************************************************************)
\* Text is a sequence of characters.  A Uuid is written with UuidHexLen hex
\* digits (32 in the uuid crate, scaled down here), in either case; its value
\* is kept, and printed, in lower case.
UuidHexLen == 2
LowerHex == {"a", "b", "1", "2"}
UpperHex == {"A", "B"}
ToLower(ch) == IF ch = "A" THEN "a" ELSE IF ch = "B" THEN "b"
               ELSE IF ch = "K" THEN "k" ELSE IF ch = "Y" THEN "y" ELSE ch

\* Uuid::parse_str
ParseUuid(text) ==
    IF Len(text) = UuidHexLen /\ \A i \in DOMAIN text : text[i] \in LowerHex \cup UpperHex
    THEN [ok |-> TRUE, id |-> [i \in DOMAIN text |-> ToLower(text[i])]]
    ELSE [ok |-> FALSE, id |-> <<>>]

\* Uuid values of keys.
K1 == <<"a", "1">>
K2 == <<"a", "2">>
K3 == <<"b", "1">>
K4 == <<"b", "2">>
KeyIds == {K1, K2}

\* Option<String>
None == [some |-> FALSE, val |-> ""]
Some(s) == [some |-> TRUE, val |-> s]

\* BatchSignItem values of the model: raw data with prehashed = false, a
\* digest-like payload with prehashed = true.
BatchSignItems ==
    [key_id : KeyIds, data : {<<104, 105>>}, prehashed : {FALSE}]
    \cup [key_id : KeyIds, data : {<<7, 7, 7>>}, prehashed : {TRUE}]

\* Signature bytes and texts the service may put into an answer.
SigDead == <<222, 173>>
SigBeef == <<190, 239, 1>>
WellFormedText == Base64Encode(SigDead)
MalformedText == <<55, 43, BadSym, 0>>

\* ApiSignature values of the model: without an error marker (the signature
\* well-formed or not), and with one (the signature empty or present).
ApiSignatures ==
    [key_id : KeyIds, signature : {WellFormedText, MalformedText},
     public_key : {"pk"}, error : {None}]
    \cup { [key_id |-> K1, signature |-> <<>>, public_key |-> "",
             error |-> Some("signing failed")],
           [key_id |-> K2, signature |-> Base64Encode(SigBeef),
             public_key |-> "pk", error |-> Some("key disabled")] }

SeqsUpTo(S, n) == UNION { [1..k -> S] : k \in 0..n }

\* The ApiRequest the call serialises (sign.rs 174-184).
ApiRequest(req) ==
    [i \in 1..Len(req) |->
        [key_id |-> req[i].key_id,
         data |-> Base64Encode(req[i].data),
         prehashed |-> req[i].prehashed]]

\* Mutant: one remote request per item instead of one for the batch.
BatchPostsSplit(req) ==
    [i \in 1..Len(req) |->
        [path |-> "/v1/sign/batch", body |-> ApiRequest(<<req[i]>>)]]

\* The remote requests one sign_batch call issues (sign.rs 186).
BatchPosts(req) ==
    << [path |-> "/v1/sign/batch", body |-> ApiRequest(req)] >>

SignResponse(key_id, signature, public_key) ==
    [key_id |-> key_id, signature |-> signature, public_key |-> public_key]

\* Mutant: the loop stops at the first error-marked entry instead of
\* skipping it.
RECURSIVE BatchLoopBreak(_, _, _, _)
BatchLoopBreak(signatures, i, results, errors) ==
    IF i > Len(signatures)
    THEN [results |-> results, errors |-> errors, failure |-> NoError]
    ELSE LET sig == signatures[i] IN
         IF sig.error.some
         THEN [results |-> results, errors |-> errors + 1, failure |-> NoError]
         ELSE LET signature == Base64Decode(sig.signature) IN
              IF ~signature.ok
              THEN [results |-> results, errors |-> errors,
                    failure |-> Decode(<<signature.why>>)]
              ELSE BatchLoopBreak(signatures, i + 1,
                                  Append(results,
                                         [key_id |-> sig.key_id,
                                          signature |-> signature.bytes,
                                          public_key |-> sig.public_key]),
                                  errors)

\* Mutant: every result is put in front of the earlier ones.
RECURSIVE BatchLoopFront(_, _, _, _)
BatchLoopFront(signatures, i, results, errors) ==
    IF i > Len(signatures)
    THEN [results |-> results, errors |-> errors, failure |-> NoError]
    ELSE LET sig == signatures[i] IN
         IF sig.error.some
         THEN BatchLoopFront(signatures, i + 1, results, errors + 1)
         ELSE LET signature == Base64Decode(sig.signature) IN
              IF ~signature.ok
              THEN [results |-> results, errors |-> errors,
                    failure |-> Decode(<<signature.why>>)]
              ELSE BatchLoopFront(signatures, i + 1,
                                  <<[key_id |-> sig.key_id,
                                     signature |-> signature.bytes,
                                     public_key |-> sig.public_key]>> \o results,
                                  errors)

\* Mutant: an error-marked entry is counted and pushed to the results too.
RECURSIVE BatchLoopKeepMarked(_, _, _, _)
BatchLoopKeepMarked(signatures, i, results, errors) ==
    IF i > Len(signatures)
    THEN [results |-> results, errors |-> errors, failure |-> NoError]
    ELSE LET sig == signatures[i] IN
         IF sig.error.some
         THEN BatchLoopKeepMarked(signatures, i + 1,
                                  Append(results,
                                         SignResponse(sig.key_id, <<>>, sig.public_key)),
                                  errors + 1)
         ELSE LET signature == Base64Decode(sig.signature) IN
              IF ~signature.ok
              THEN [results |-> results, errors |-> errors,
                    failure |-> Decode(<<signature.why>>)]
              ELSE BatchLoopKeepMarked(signatures, i + 1,
                                       Append(results,
                                              SignResponse(sig.key_id, signature.bytes,
                                                           sig.public_key)),
                                       errors)

\* The loop over response.signatures (sign.rs 188-206): the state after
\* entry i and the entries before it; stops at the first undecodable one.
RECURSIVE BatchLoop(_, _, _, _)
BatchLoop(signatures, i, results, errors) ==
    IF i > Len(signatures)
    THEN [results |-> results, errors |-> errors, failure |-> NoError]
    ELSE LET sig == signatures[i] IN
         IF sig.error.some
         THEN BatchLoop(signatures, i + 1, results, errors + 1)
         ELSE LET signature == Base64Decode(sig.signature) IN
              IF ~signature.ok
              THEN [results |-> results, errors |-> errors,
                    failure |-> Decode(<<signature.why>>)]
              ELSE BatchLoop(signatures, i + 1,
                             Append(results,
                                    SignResponse(sig.key_id, signature.bytes,
                                                 sig.public_key)),
                             errors)

\* Mutant: any error marker fails the whole batch.
BatchPolicyStrict(results, errors, total) ==
    IF errors > 0
    THEN Err(BatchPartialFailure(errors, total))
    ELSE Ok(results)

\* The policy after the loop (sign.rs 208-215).
BatchPolicy(results, errors, total) ==
    IF errors > 0 /\ results = <<>>
    THEN Err(BatchPartialFailure(errors, total))
    ELSE Ok(results)

\* sign_batch from the answer of client.post on (sign.rs 186-215).
SignBatchFinish(req, resp) ==
    IF ~resp.ok THEN Err(resp.err)
    ELSE LET loop == BatchLoop(resp.val, 1, <<>>, 0) IN
         IF loop.failure # NoError THEN Err(loop.failure)
         ELSE BatchPolicy(loop.results, loop.errors, Len(req))

BatchInit ==
    /\ bpc = "idle"
    /\ request = <<>>
    /\ posted = <<>>
    /\ response = Ok(<<>>)
    /\ ret = Ok(<<>>)

\* sign_batch is called and suspends on client.post.
SignBatchCall(req) ==
    /\ bpc = "idle"
    /\ bpc' = "awaiting"
    /\ request' = req
    /\ posted' = BatchPosts(req)
    /\ UNCHANGED <<response, ret>>

\* client.post resumes the call with resp; the call runs to its return.
SignBatchResume(resp) ==
    /\ bpc = "awaiting"
    /\ bpc' = "done"
    /\ response' = resp
    /\ ret' = SignBatchFinish(request, resp)
    /\ UNCHANGED <<request, posted>>

\* The caller takes the value; the next call may start.
SignBatchReturn ==
    /\ bpc = "done"
    /\ bpc' = "idle"
    /\ request' = <<>>
    /\ posted' = <<>>
    /\ response' = Ok(<<>>)
    /\ ret' = Ok(<<>>)

BatchResponses ==
    { Err(e) : e \in RequestErrors }
    \cup { Ok(s) : s \in SeqsUpTo(ApiSignatures, MaxEntries) }

(***************************************************************************)
(* derive_celestia_address and bech32_encode (celestia.rs 897-982).        *)
(***************************************************************************)
\* Bound on the length of the data given to bech32_encode.
MaxDataLen == 5

\* u32 values.  acc overflows its 32 bits on the fifth byte, so it is kept
\* as its two 16-bit halves; chk stays below 2^30 (it is masked with
\* 0x1ffffff before each shift) and is kept as a number.
Pow2(n) ==
    <<1, 2, 4, 8, 16, 32, 64, 128, 256, 512, 1024, 2048, 4096, 8192, 16384,
      32768, 65536, 131072, 262144, 524288, 1048576, 2097152, 4194304,
      8388608, 16777216, 33554432, 67108864, 134217728, 268435456,
      536870912, 1073741824>>[n + 1]
Bit(x, i) == (x \div Pow2(i)) % 2
\* a | b on the bits lo .. hi, the two halves of the range added up.
RECURSIVE OrBits(_, _, _, _)
OrBits(a, b, lo, hi) ==
    IF lo = hi
    THEN (IF Bit(a, lo) = 1 \/ Bit(b, lo) = 1 THEN Pow2(lo) ELSE 0)
    ELSE OrBits(a, b, lo, (lo + hi) \div 2)
         + OrBits(a, b, (lo + hi) \div 2 + 1, hi)
BitOr(a, b) == OrBits(a, b, 0, 15)
U32Zero == [hi |-> 0, lo |-> 0]
U32FromByte(b) == [hi |-> 0, lo |-> b]
\* v << n and v >> n, for n < 16
U32Shl(v, n) ==
    [hi |-> (v.hi % Pow2(16 - n)) * Pow2(n) + v.lo \div Pow2(16 - n),
     lo |-> (v.lo % Pow2(16 - n)) * Pow2(n)]
U32Shr(v, n) ==
    [hi |-> v.hi \div Pow2(n),
     lo |-> v.lo \div Pow2(n) + (v.hi % Pow2(n)) * Pow2(16 - n)]
U32Or(v, w) == [hi |-> BitOr(v.hi, w.hi), lo |-> BitOr(v.lo, w.lo)]
\* (v as u8) & 0x1f
LowFive(v) == v.lo % 32
ShiftRight(x, n) == x \div Pow2(n)
\* The ^ of all the terms on the bits lo .. hi, the two halves of the range
\* added up: a bit is set when an odd number of terms has it.
RECURSIVE XorBits(_, _, _)
XorBits(terms, lo, hi) ==
    IF lo = hi
    THEN (IF Cardinality({ j \in DOMAIN terms : Bit(terms[j], lo) = 1 }) % 2 = 1
          THEN Pow2(lo) ELSE 0)
    ELSE XorBits(terms, lo, (lo + hi) \div 2)
         + XorBits(terms, (lo + hi) \div 2 + 1, hi)
XorAll(terms) == XorBits(terms, 0, 30)
Xor(a, b) == XorAll(<<a, b>>)

\* The characters of a prefix and their codes (c as u8).
Letters ==
    <<"a", "b", "c", "d", "e", "f", "g", "h", "i", "j", "k", "l", "m",
      "n", "o", "p", "q", "r", "s", "t", "u", "v", "w", "x", "y", "z">>
CharCode(ch) == 96 + CHOOSE i \in DOMAIN Letters : Letters[i] = ch

\* const CHARSET (celestia.rs 940)
CHARSET ==
    <<"q", "p", "z", "r", "y", "9", "x", "8", "g", "f", "2", "t", "v", "d",
      "w", "0", "s", "3", "j", "n", "5", "4", "k", "h", "c", "e", "6", "m",
      "u", "a", "7", "l">>

\* The loop over the data bytes with its inner while loop (celestia.rs
\* 918-925): i is the next index; acc, bits and out (converted) the locals.
RECURSIVE DrainBits(_, _, _)
DrainBits(acc, bits, out) ==
    IF bits >= 5
    THEN DrainBits(acc, bits - 5, Append(out, LowFive(U32Shr(acc, bits - 5))))
    ELSE [out |-> out, bits |-> bits]
RegroupByte(data, st) ==
    LET acc1 == U32Or(U32Shl(st.acc, 8), U32FromByte(data[st.i]))
        drained == DrainBits(acc1, st.bits + 8, st.out)
    IN [i |-> st.i + 1, acc |-> acc1, bits |-> drained.bits, out |-> drained.out]
\* The iterations st.i .. hi of the loop, run as their first half followed
\* by their second half.
RECURSIVE RegroupLoop(_, _, _)
RegroupLoop(data, st, hi) ==
    IF st.i > hi THEN st
    ELSE IF st.i = hi THEN RegroupByte(data, st)
    ELSE RegroupLoop(data, RegroupLoop(data, st, (st.i + hi) \div 2), hi)

\* Mutant: the final partial group is never pushed.
LastGroupDropped(acc, bits) == <<>>

\* Mutant: the leftover bits are kept as the low bits of the final group.
LastGroupLow(acc, bits) ==
    IF bits > 0 THEN << acc.lo % Pow2(bits) >> ELSE <<>>

\* The final partial group (celestia.rs 926-928).
LastGroup(acc, bits) ==
    IF bits > 0 THEN << LowFive(U32Shl(acc, 5 - bits)) >> ELSE <<>>

\* The local `converted` (celestia.rs 914-928).
Regroup(data) ==
    LET done == RegroupLoop(data, [i |-> 1, acc |-> U32Zero, bits |-> 0, out |-> <<>>],
                            Len(data))
    IN done.out \o LastGroup(done.acc, done.bits)

\* expand_hrp (celestia.rs 955-965)
ExpandHrp(hrp) ==
    [i \in 1..Len(hrp) |-> CharCode(hrp[i]) \div 32]
    \o <<0>>
    \o [i \in 1..Len(hrp) |-> CharCode(hrp[i]) % 32]

\* bech32_polymod (celestia.rs 967-982)
GEN == <<996825010, 642813549, 513874426, 1027748829, 705979059>>
\* GEN[i] when bit i of b is set (celestia.rs 974-978); i counts from 1.
GenTerm(b, i) == IF Bit(b, i - 1) = 1 THEN GEN[i] ELSE 0
\* Mutant: chk is masked with 0x3ffffff, one bit more than 0x1ffffff.
PolymodRoundWideMask(chk, v) ==
    LET b == ShiftRight(chk, 25)
    IN XorAll(<< (chk % 67108864) * 32, v, GenTerm(b, 1), GenTerm(b, 2),
                 GenTerm(b, 3), GenTerm(b, 4), GenTerm(b, 5) >>)
\* One round of the loop over the values (celestia.rs 971-979): the shifted
\* chk, the value and the selected generators, xored together.
PolymodRound(chk, v) ==
    LET b == ShiftRight(chk, 25)
    IN XorAll(<< (chk % 33554432) * 32, v, GenTerm(b, 1), GenTerm(b, 2),
                 GenTerm(b, 3), GenTerm(b, 4), GenTerm(b, 5) >>)
\* The loop over the values: i is the next index, chk the local.  The
\* iterations st.i .. hi are run as their first half followed by their
\* second half.
RECURSIVE PolymodLoop(_, _, _)
PolymodLoop(values, st, hi) ==
    IF st.i > hi THEN st
    ELSE IF st.i = hi
    THEN [i |-> st.i + 1, chk |-> PolymodRound(st.chk, values[st.i])]
    ELSE PolymodLoop(values, PolymodLoop(values, st, (st.i + hi) \div 2), hi)
Bech32Polymod(values) ==
    PolymodLoop(values, [i |-> 1, chk |-> 1], Len(values)).chk

\* Mutant: the final state is not xored with 1.
ChecksumNoFlip(hrp, groups) ==
    LET polymod == Bech32Polymod(ExpandHrp(hrp) \o groups \o <<0, 0, 0, 0, 0, 0>>)
    IN [i \in 1..6 |-> ShiftRight(polymod, 5 * (6 - i)) % 32]

\* The checksum groups (celestia.rs 930-938).
Checksum(hrp, groups) ==
    LET polymod == Xor(Bech32Polymod(ExpandHrp(hrp) \o groups \o <<0, 0, 0, 0, 0, 0>>), 1)
    IN [i \in 1..6 |-> ShiftRight(polymod, 5 * (6 - i)) % 32]

\* Result<String>
TextOk(text) == [ok |-> TRUE, val |-> text, err |-> NoError]
TextErr(e) == [ok |-> FALSE, val |-> <<>>, err |-> e]

\* bech32_encode (celestia.rs 913-953)
Bech32Encode(hrp, data) ==
    LET groups == Regroup(data)
        checksum == Checksum(hrp, groups)
    IN TextOk(hrp \o <<"1">>
              \o [i \in DOMAIN groups |-> CHARSET[groups[i] + 1]]
              \o [i \in DOMAIN checksum |-> CHARSET[checksum[i] + 1]])

\* Sha256::digest and Ripemd160::digest (sha2 and ripemd crates): functions
\* of the input with outputs of 32 and of 20 bytes.  The hash functions
\* themselves are outside the crate; what is kept is that the output is
\* determined by the input and has the fixed length.
RECURSIVE ByteMix(_, _, _)
ByteMix(bytes, lo, hi) ==
    IF lo > hi THEN Len(bytes)
    ELSE IF lo = hi THEN (bytes[lo] * (lo + 1) + 31 * Len(bytes)) % 65521
    ELSE (ByteMix(bytes, lo, (lo + hi) \div 2)
          + 31 * ByteMix(bytes, (lo + hi) \div 2 + 1, hi)) % 65521
Sha256Digest(bytes) ==
    LET m == ByteMix(bytes, 1, Len(bytes)) IN [i \in 1..32 |-> (m * i + 7 * i + 83) % 256]
Ripemd160Digest(bytes) ==
    LET m == ByteMix(bytes, 1, Len(bytes)) IN [i \in 1..20 |-> (m * (i + 2) + 11 * i + 5) % 256]

\* The hrp of Celestia addresses (celestia.rs 910).
CelestiaHrp == <<"c", "e", "l", "e", "s", "t", "i", "a">>

\* Mutant: only keys that are too short are rejected.
KeyTooShort(public_key) == Len(public_key) < 33

\* The length check of derive_celestia_address (celestia.rs 898).
BadKeyLength(public_key) == Len(public_key) # 33

\* The digests derive_celestia_address computes, in order (celestia.rs
\* 908-909).
DeriveHashes(public_key) ==
    IF BadKeyLength(public_key) THEN <<>>
    ELSE << [fn |-> "Sha256", input |-> public_key],
            [fn |-> "Ripemd160", input |-> Sha256Digest(public_key)] >>

\* Mutant: the address encodes the 256-bit hash, the 160-bit hash is skipped.
DeriveWithoutRipemd(public_key) ==
    IF BadKeyLength(public_key)
    THEN TextErr(InvalidRequest(
            <<"invalid public key length: expected 33 bytes, got ",
              ToString(Len(public_key))>>))
    ELSE Bech32Encode(CelestiaHrp, Sha256Digest(public_key))
\* derive_celestia_address (celestia.rs 897-911)
DeriveCelestiaAddress(public_key) ==
    IF BadKeyLength(public_key)
    THEN TextErr(InvalidRequest(
            <<"invalid public key length: expected 33 bytes, got ",
              ToString(Len(public_key))>>))
    ELSE Bech32Encode(CelestiaHrp, Ripemd160Digest(Sha256Digest(public_key)))

Zeros(n) == [i \in 1..n |-> 0]

\* Arguments of bech32_encode and of derive_celestia_address.
DataBytes == {0, 165, 255}
Hrps == { <<"a">>, <<"t", "b">>, CelestiaHrp }
EncodeData == SeqsUpTo(DataBytes, MaxDataLen) \cup { Zeros(20) }
PublicKeys ==
    { <<>>, Zeros(32), Zeros(33), <<2>> \o Zeros(32), <<3>> \o Zeros(32),
      <<2>> \o [i \in 1..32 |-> 255], Zeros(34), <<4>> \o Zeros(64) }

AddressInit ==
    /\ \/ addr_fn = "bech32_encode" /\ addr_hrp \in Hrps /\ addr_data \in EncodeData
       \/ addr_fn = "derive_celestia_address" /\ addr_hrp = <<>>
            /\ addr_data \in PublicKeys
    /\ converted = <<>>
    /\ hashed = <<>>
    /\ addr_ret = TextErr(NoError)

\* bech32_encode(addr_hrp, addr_data) runs to its return.
EncodeCall ==
    /\ addr_fn = "bech32_encode"
    /\ addr_ret = TextErr(NoError)
    /\ converted' = Regroup(addr_data)
    /\ addr_ret' = Bech32Encode(addr_hrp, addr_data)
    /\ UNCHANGED <<addr_fn, addr_hrp, addr_data, hashed>>

\* derive_celestia_address(addr_data) runs to its return.
DeriveCall ==
    /\ addr_fn = "derive_celestia_address"
    /\ addr_ret = TextErr(NoError)
    /\ hashed' = DeriveHashes(addr_data)
    /\ converted' = IF BadKeyLength(addr_data) THEN <<>>
                    ELSE Regroup(Ripemd160Digest(Sha256Digest(addr_data)))
    /\ addr_ret' = DeriveCelestiaAddress(addr_data)
    /\ UNCHANGED <<addr_fn, addr_hrp, addr_data>>

(***************************************************************************)
(* SignerError and the conversion From<POPSignerError> (celestia.rs).      *)
(***************************************************************************)
SignerError(kind, msg) == [kind |-> kind, message |-> msg]
NoSignerError == SignerError("None", <<>>)

\* Display of a POPSignerError (the #[error(..)] attributes of error.rs).
Display(err) ==
    CASE err.kind = "Api" ->
            <<"API error (", ToString(err.status_code), "): [", err.code, "] ">>
            \o err.message
      [] err.kind = "Http" -> <<"HTTP error: ">> \o err.message
      [] err.kind = "Decode" -> <<"Decode error: ">> \o err.message
      [] err.kind = "Unauthorized" -> <<"Unauthorized: invalid API key">>
      [] err.kind = "RateLimited" -> <<"Rate limit exceeded">>
      [] err.kind = "QuotaExceeded" -> <<"Quota exceeded: ">> \o err.message
      [] err.kind = "KeyNotFound" -> <<"Key not found: ">> \o err.message
      [] err.kind = "NamespaceNotFound" -> <<"Namespace not found: ">> \o err.message
      [] err.kind = "OrgNotFound" -> <<"Organization not found: ">> \o err.message
      [] err.kind = "InvalidRequest" -> <<"Invalid request: ">> \o err.message
      [] err.kind = "SigningError" -> <<"Signing error: ">> \o err.message
      [] err.kind = "BatchPartialFailure" ->
            <<"Batch operation had ", ToString(err.failed), " failures out of ",
              ToString(err.total), " requests">>

\* Mutant: the KeyNotFound arm is missing and the message is replaced.
SignerErrorFromNoKeyArm(err) ==
    CASE err.kind = "Unauthorized" ->
            SignerError("Authentication", <<"invalid API key">>)
      [] err.kind = "RateLimited" -> SignerError("RateLimited", <<>>)
      [] err.kind = "Http" -> SignerError("Network", err.message)
      [] err.kind = "SigningError" -> SignerError("SigningFailed", err.message)
      [] err.kind = "Api" -> SignerError("SigningFailed", err.message)
      [] OTHER -> SignerError("SigningFailed", Display(err))

\* impl From<POPSignerError> for SignerError
SignerErrorFrom(err) ==
    CASE err.kind = "Unauthorized" ->
            SignerError("Authentication", <<"invalid API key">>)
      [] err.kind = "RateLimited" -> SignerError("RateLimited", <<>>)
      [] err.kind = "KeyNotFound" -> SignerError("KeyNotFound", err.message)
      [] err.kind = "Http" -> SignerError("Network", err.message)
      [] err.kind = "SigningError" -> SignerError("SigningFailed", err.message)
      [] err.kind = "Api" -> SignerError("SigningFailed", err.message)
      [] OTHER -> SignerError("SigningFailed", Display(err))

(***************************************************************************)
(* impl Signer for POPSignerSigner, over SignClient::sign.                 *)
(***************************************************************************)
DigestLen == 32

\* Call sites that use the signer concurrently.
Callers == {"a", "b"}

\* The signers of the model (key_id, key_name and public_key are fixed at
\* construction).
Signers ==
    { [key_id |-> K1, key_name |-> <<"k", "y">>, public_key |-> <<2>> \o Zeros(32),
       celestia_address |-> DeriveCelestiaAddress(<<2>> \o Zeros(32)).val],
      [key_id |-> K2, key_name |-> <<"k", "y", "2">>, public_key |-> <<3>> \o Zeros(32),
       celestia_address |-> DeriveCelestiaAddress(<<3>> \o Zeros(32)).val] }

\* Arguments of sign and of sign_digest.
SignMessages == { <<104, 105>>, Zeros(DigestLen) }
SignDigests == { Zeros(DigestLen - 1), Zeros(DigestLen), Zeros(DigestLen + 1) }

\* What client.post returns to SignClient::sign: Response{signature,
\* public_key}, or an error.
SignReply(signature, public_key) ==
    [ok |-> TRUE, signature |-> signature, public_key |-> public_key,
     err |-> NoError]
SignReplyErr(e) ==
    [ok |-> FALSE, signature |-> <<>>, public_key |-> "", err |-> e]
SignReplies ==
    { SignReply(WellFormedText, "pk"), SignReply(MalformedText, "pk") }
    \cup { SignReplyErr(e) :
            e \in { Http(<<"error sending request">>),
                    ParseError(401, NoBody),
                    ParseError(429, NoBody),
                    ParseError(500, ErrorBody("quota_exceeded", <<"quota used up">>)),
                    ParseError(500, NoBody) } }

\* Mutant: a payload that was sent before is answered from a local cache.
SignPostsCached(c, key_id, data, prehashed) ==
    IF \E i \in DOMAIN sposted : sposted[i].data = Base64Encode(data)
    THEN <<>>
    ELSE << [caller |-> c,
             path |-> <<"/v1/keys/", key_id, "/sign">>,
             data |-> Base64Encode(data),
             prehashed |-> prehashed] >>

\* The remote requests one SignClient::sign call issues (sign.rs 88-96).
SignPosts(c, key_id, data, prehashed) ==
    << [caller |-> c,
        path |-> <<"/v1/keys/", key_id, "/sign">>,
        data |-> Base64Encode(data),
        prehashed |-> prehashed] >>

\* SignClient::sign from the answer of client.post on (sign.rs 93-106):
\* Result<SignResponse>.
SignClientFinish(key_id, reply) ==
    IF ~reply.ok THEN [ok |-> FALSE, err |-> reply.err, key_id |-> key_id,
                       signature |-> <<>>, public_key |-> ""]
    ELSE LET signature == Base64Decode(reply.signature) IN
         IF ~signature.ok
         THEN [ok |-> FALSE, err |-> Decode(<<signature.why>>), key_id |-> key_id,
               signature |-> <<>>, public_key |-> ""]
         ELSE [ok |-> TRUE, err |-> NoError, key_id |-> key_id,
               signature |-> signature.bytes, public_key |-> reply.public_key]

\* Result<Vec<u8>, SignerError>
SignerOk(bytes) == [ok |-> TRUE, val |-> bytes, err |-> NoSignerError]
SignerErr(e) == [ok |-> FALSE, val |-> <<>>, err |-> e]

\* Signer::sign / sign_digest after SignClient::sign returned
\* (celestia.rs 277-280, 295-298).
SignerFinish(signed) ==
    IF ~signed.ok THEN SignerErr(SignerErrorFrom(signed.err))
    ELSE SignerOk(signed.signature)

\* Mutant: only digests that are too short are rejected.
DigestTooShort(digest) == Len(digest) < DigestLen

\* The length check of sign_digest (celestia.rs 284-289).
DigestRejected(digest) == Len(digest) # DigestLen

SignerInit ==
    /\ signer \in Signers
    /\ spc = [c \in Callers |-> "idle"]
    /\ sop = [c \in Callers |-> ""]
    /\ sarg = [c \in Callers |-> <<>>]
    /\ sreply = [c \in Callers |-> SignReplyErr(NoError)]
    /\ sret = [c \in Callers |-> SignerErr(NoSignerError)]
    /\ calls = <<>>
    /\ sposted = <<>>

\* Signer::sign is called and suspends on the remote request.
SignCall(c, msg) ==
    /\ spc[c] = "idle"
    /\ Len(calls) < MaxCalls
    /\ calls' = Append(calls, <<c, "sign", Len(msg)>>)
    /\ sop' = [sop EXCEPT ![c] = "sign"]
    /\ sarg' = [sarg EXCEPT ![c] = msg]
    /\ sposted' = sposted \o SignPosts(c, signer.key_id, msg, FALSE)
    /\ spc' = [spc EXCEPT ![c] = "awaiting"]
    /\ UNCHANGED <<signer, sreply, sret>>

\* Signer::sign_digest is called: it returns at once on a bad length, and
\* suspends on the remote request otherwise.
SignDigestCall(c, digest) ==
    /\ spc[c] = "idle"
    /\ Len(calls) < MaxCalls
    /\ calls' = Append(calls, <<c, "sign_digest", Len(digest)>>)
    /\ sop' = [sop EXCEPT ![c] = "sign_digest"]
    /\ sarg' = [sarg EXCEPT ![c] = digest]
    /\ IF DigestRejected(digest)
       THEN /\ sret' = [sret EXCEPT ![c] =
                    SignerErr(SignerError("InvalidInput",
                        <<"digest must be 32 bytes, got ", ToString(Len(digest))>>))]
            /\ spc' = [spc EXCEPT ![c] = "done"]
            /\ UNCHANGED sposted
       ELSE /\ sposted' = sposted \o SignPosts(c, signer.key_id, digest, TRUE)
            /\ spc' = [spc EXCEPT ![c] = "awaiting"]
            /\ UNCHANGED sret
    /\ UNCHANGED <<signer, sreply>>

\* Mutant: the public key of the answer replaces the signer's.
SignResumeRefreshKey(c, reply) ==
    /\ spc[c] = "awaiting"
    /\ sreply' = [sreply EXCEPT ![c] = reply]
    /\ sret' = [sret EXCEPT ![c] = SignerFinish(SignClientFinish(signer.key_id, reply))]
    /\ spc' = [spc EXCEPT ![c] = "done"]
    /\ signer' = IF reply.ok THEN [signer EXCEPT !.public_key = <<>>] ELSE signer
    /\ UNCHANGED <<sop, sarg, calls, sposted>>

\* The remote request of caller c completes; the operation runs to its return.
SignResume(c, reply) ==
    /\ spc[c] = "awaiting"
    /\ sreply' = [sreply EXCEPT ![c] = reply]
    /\ sret' = [sret EXCEPT ![c] = SignerFinish(SignClientFinish(signer.key_id, reply))]
    /\ spc' = [spc EXCEPT ![c] = "done"]
    /\ UNCHANGED <<signer, sop, sarg, calls, sposted>>

\* The caller drops the suspended operation.
SignAbandon(c) ==
    /\ spc[c] = "awaiting"
    /\ spc' = [spc EXCEPT ![c] = "idle"]
    /\ sop' = [sop EXCEPT ![c] = ""]
    /\ sarg' = [sarg EXCEPT ![c] = <<>>]
    /\ UNCHANGED <<signer, sreply, sret, calls, sposted>>

\* The caller takes the value; its next call may start.
SignReturn(c) ==
    /\ spc[c] = "done"
    /\ spc' = [spc EXCEPT ![c] = "idle"]
    /\ sop' = [sop EXCEPT ![c] = ""]
    /\ sarg' = [sarg EXCEPT ![c] = <<>>]
    /\ sreply' = [sreply EXCEPT ![c] = SignReplyErr(NoError)]
    /\ sret' = [sret EXCEPT ![c] = SignerErr(NoSignerError)]
    /\ UNCHANGED <<signer, calls, sposted>>

(***************************************************************************)
(* POPSignerSigner::resolve_key, over KeysClient::get and KeysClient::list.*)
(***************************************************************************)
\* The hex text of a compressed public key: parity byte, then 32 zero bytes.
PublicKeyText(parity) == <<"0", parity>> \o [i \in 1..64 |-> "0"]

\* types::Key (the fields resolution and construction read, and the
\* namespace).
Key(id, name, namespace_id, public_key) ==
    [id |-> id, name |-> name, namespace_id |-> namespace_id,
     public_key |-> public_key]
NoKey == Key(<<>>, <<>>, "", <<>>)

\* The keys of the model: two of one name in two namespaces, one whose name
\* differs in case only, one whose name extends the others'.
Catalog ==
    { Key(K1, <<"k", "y">>, "ns1", PublicKeyText("2")),
      Key(K2, <<"k", "y">>, "ns2", PublicKeyText("3")),
      Key(K3, <<"K", "y">>, "ns1", PublicKeyText("2")),
      Key(K4, <<"k", "y", "2">>, "ns1", PublicKeyText("3")) }

\* Arguments of resolve_key: names (held or not), and key identifiers in
\* lower and in upper case.
ResolveArgs ==
    { <<"k", "y">>, <<"k">>, <<"K", "Y">>, <<"a", "1">>, <<"A", "1">>, <<"b", "2">> }

\* Result<Key> and Result<Vec<Key>>
KeyOk(key) == [ok |-> TRUE, key |-> key, keys |-> <<>>, err |-> NoError]
KeysOk(keys) == [ok |-> TRUE, key |-> NoKey, keys |-> keys, err |-> NoError]
KeyErr(e) == [ok |-> FALSE, key |-> NoKey, keys |-> <<>>, err |-> e]

\* KeysClient::get: the request it issues (keys.rs 123-125).
KeysGet(key_id) == [method |-> "GET", path |-> <<"/v1/keys/">> \o key_id]

\* KeysClient::list: the request it issues (keys.rs 153-159).
KeysList(namespace_id) ==
    [method |-> "GET",
     path |-> IF namespace_id.some
              THEN <<"/v1/keys?namespace_id=", namespace_id.val>>
              ELSE <<"/v1/keys">>]

\* The answers of the custodian to GET /v1/keys/{id}: the key of that id, or
\* 404 when it holds none; and to GET /v1/keys: all its keys.  Any request
\* may also fail on the way.
Failures ==
    { Http(<<"error sending request">>),
      ParseError(401, NoBody),
      ParseError(500, ErrorBody("internal", <<"Internal server error">>)) }
GetReplies(key_id) ==
    LET held == { i \in DOMAIN custodian : custodian[i].id = key_id } IN
    (IF held = {}
     THEN { KeyErr(ParseError(404, ErrorBody("not_found", <<"Key does not exist">>))) }
     ELSE { KeyOk(custodian[i]) : i \in held })
    \cup { KeyErr(e) : e \in Failures }
\* The answers to the get this call is suspended on.
PendingGetReplies ==
    IF rpc = "get" THEN GetReplies(Tail(rlog[1].path)) ELSE {}
ListReplies == { KeysOk(custodian) } \cup { KeyErr(e) : e \in Failures }

\* Mutant: the comparison ignores case.
NameMatchesNoCase(name, wanted) ==
    /\ Len(name) = Len(wanted)
    /\ \A i \in DOMAIN name : ToLower(name[i]) = ToLower(wanted[i])

\* The comparison of a listed key's name with the argument (celestia.rs 228).
NameMatches(name, wanted) == name = wanted

\* Mutant: the last listed key of the wanted name is taken.
FindKeyLast(keys, i, wanted) ==
    LET hits == { j \in i..Len(keys) : NameMatches(keys[j].name, wanted) } IN
    IF hits = {} THEN 0 ELSE CHOOSE j \in hits : \A h \in hits : h <= j
\* The first listed key of the wanted name, 0 when there is none
\* (celestia.rs 227-231).
RECURSIVE FindKey(_, _, _)
FindKey(keys, i, wanted) ==
    IF i > Len(keys) THEN 0
    ELSE IF NameMatches(keys[i].name, wanted) THEN i
    ELSE FindKey(keys, i + 1, wanted)

\* {:?} of a Vec<String>
RECURSIVE DebugNames(_, _)
DebugNames(names, i) ==
    IF i > Len(names) THEN <<>>
    ELSE (IF i > 1 THEN <<", ">> ELSE <<>>)
         \o <<"\"">> \o names[i] \o <<"\"">>
         \o DebugNames(names, i + 1)

\* The message of the KeyNotFound error (celestia.rs 240-243).
NotFoundMessage(wanted, names) ==
    <<"key '">> \o wanted \o <<"' not found (available: [">>
    \o DebugNames(names, 1) \o <<"])">>

\* The names of the second listing, none when it failed (celestia.rs 233-238).
AvailableNames(reply) ==
    IF reply.ok THEN [i \in DOMAIN reply.keys |-> reply.keys[i].name] ELSE <<>>

CustodianInit ==
    /\ custodian \in { ks \in SeqsUpTo(Catalog, MaxKeys) :
                        \A i, j \in DOMAIN ks : i # j => ks[i].id # ks[j].id }
    /\ changes = 0

ResolveInit ==
    /\ CustodianInit
    /\ rpc = "idle"
    /\ key_name_or_id = <<>>
    /\ rlog = <<>>
    /\ rreplies = <<>>
    /\ available_names = <<>>
    /\ rret = KeyErr(NoError)

\* KeysClient::create at the custodian, by anyone.
CreateKey(key) ==
    /\ changes < MaxChanges
    /\ Len(custodian) < MaxKeys
    /\ \A i \in DOMAIN custodian : custodian[i].id # key.id
    /\ custodian' = Append(custodian, key)
    /\ changes' = changes + 1
    /\ UNCHANGED <<rpc, key_name_or_id, rlog, rreplies, available_names, rret>>

\* KeysClient::delete at the custodian, by anyone.
DeleteKey(i) ==
    /\ changes < MaxChanges
    /\ i \in DOMAIN custodian
    /\ custodian' = SubSeq(custodian, 1, i - 1) \o SubSeq(custodian, i + 1, Len(custodian))
    /\ changes' = changes + 1
    /\ UNCHANGED <<rpc, key_name_or_id, rlog, rreplies, available_names, rret>>

\* resolve_key is called: a key identifier is fetched, any other text is
\* looked up in the listing (celestia.rs 221-226).
ResolveCall(arg) ==
    /\ rpc = "idle"
    /\ key_name_or_id' = arg
    /\ IF ParseUuid(arg).ok
       THEN /\ rlog' = <<KeysGet(ParseUuid(arg).id)>>
            /\ rpc' = "get"
       ELSE /\ rlog' = <<KeysList(None)>>
            /\ rpc' = "list1"
    /\ UNCHANGED <<custodian, changes, rreplies, available_names, rret>>

\* Mutant: a failed get falls back to the lookup by name.
ResolveGotFallback(reply) ==
    /\ rpc = "get"
    /\ rreplies' = Append(rreplies, reply)
    /\ IF reply.ok
       THEN rret' = reply /\ rpc' = "done" /\ UNCHANGED rlog
       ELSE rlog' = Append(rlog, KeysList(None)) /\ rpc' = "list1" /\ UNCHANGED rret
    /\ UNCHANGED <<custodian, changes, key_name_or_id, available_names>>

\* The get returns: its outcome is the outcome of the call (celestia.rs 223).
ResolveGot(reply) ==
    /\ rpc = "get"
    /\ rreplies' = Append(rreplies, reply)
    /\ rret' = reply
    /\ rpc' = "done"
    /\ UNCHANGED <<custodian, changes, key_name_or_id, rlog, available_names>>

\* The first listing returns: its error ends the call, a key of the name
\* ends the call, otherwise the keys are listed again (celestia.rs 226-236).
ResolveListed(reply) ==
    /\ rpc = "list1"
    /\ rreplies' = Append(rreplies, reply)
    /\ IF ~reply.ok
       THEN /\ rret' = KeyErr(reply.err)
            /\ rpc' = "done"
            /\ UNCHANGED rlog
       ELSE IF FindKey(reply.keys, 1, key_name_or_id) # 0
       THEN /\ rret' = KeyOk(reply.keys[FindKey(reply.keys, 1, key_name_or_id)])
            /\ rpc' = "done"
            /\ UNCHANGED rlog
       ELSE /\ rlog' = Append(rlog, KeysList(None))
            /\ rpc' = "list2"
            /\ UNCHANGED rret
    /\ UNCHANGED <<custodian, changes, key_name_or_id, available_names>>

\* Mutant: the error of the second listing is returned.
ResolveNotFoundMasked(reply) ==
    /\ rpc = "list2"
    /\ rreplies' = Append(rreplies, reply)
    /\ available_names' = AvailableNames(reply)
    /\ rret' = IF reply.ok
               THEN KeyErr(KeyNotFound(NotFoundMessage(key_name_or_id,
                                                       AvailableNames(reply))))
               ELSE KeyErr(reply.err)
    /\ rpc' = "done"
    /\ UNCHANGED <<custodian, changes, key_name_or_id, rlog>>

\* The second listing returns: the call fails with KeyNotFound
\* (celestia.rs 233-243).
ResolveNotFound(reply) ==
    /\ rpc = "list2"
    /\ rreplies' = Append(rreplies, reply)
    /\ available_names' = AvailableNames(reply)
    /\ rret' = KeyErr(KeyNotFound(NotFoundMessage(key_name_or_id, AvailableNames(reply))))
    /\ rpc' = "done"
    /\ UNCHANGED <<custodian, changes, key_name_or_id, rlog>>

\* The caller takes the value; the next call may start.
ResolveReturn ==
    /\ rpc = "done"
    /\ rpc' = "idle"
    /\ key_name_or_id' = <<>>
    /\ rlog' = <<>>
    /\ rreplies' = <<>>
    /\ available_names' = <<>>
    /\ rret' = KeyErr(NoError)
    /\ UNCHANGED <<custodian, changes>>

(***************************************************************************)
(* The conversion From<POPSignerError> for SignerError as a function of    *)
(* its argument.                                                           *)
(***************************************************************************)
\* Messages of errors.
ErrorMessages == { <<>>, <<"Key does not exist">>, <<"connection refused">> }

\* POPSignerError values: every variant of the enum (error.rs 12-73).
LowerErrors ==
    { Unauthorized, RateLimited }
    \cup { ApiError(code, msg, status) :
            code \in {"unknown", "not_found", "forbidden"},
            msg \in ErrorMessages,
            status \in {400, 403, 404, 500} }
    \cup { [Error(kind) EXCEPT !.message = msg] :
            kind \in {"Http", "Decode", "QuotaExceeded", "KeyNotFound",
                      "NamespaceNotFound", "OrgNotFound", "InvalidRequest",
                      "SigningError"},
            msg \in ErrorMessages }
    \cup { BatchPartialFailure(n, n) : n \in 1..MaxItems }

ConvertInit ==
    /\ lower \in LowerErrors
    /\ mapped = NoSignerError

\* SignerError::from(lower)
Convert ==
    /\ mapped = NoSignerError
    /\ mapped' = SignerErrorFrom(lower)
    /\ UNCHANGED lower

(***************************************************************************)
(* POPSignerSigner::new and ClientBuilder::build (celestia.rs 178-219,     *)
(* 391-424).                                                               *)
(***************************************************************************)
\* hex::decode: an odd number of characters is rejected, then any character
\* that is not a hex digit; two digits make a byte.
HexDigits ==
    <<"0", "1", "2", "3", "4", "5", "6", "7", "8", "9",
      "a", "b", "c", "d", "e", "f">>
HexUpper == <<"A", "B", "C", "D", "E", "F">>
IsHexDigit(ch) ==
    \/ \E i \in DOMAIN HexDigits : HexDigits[i] = ch
    \/ \E i \in DOMAIN HexUpper : HexUpper[i] = ch
HexVal(ch) ==
    IF \E i \in DOMAIN HexDigits : HexDigits[i] = ch
    THEN (CHOOSE i \in DOMAIN HexDigits : HexDigits[i] = ch) - 1
    ELSE (CHOOSE i \in DOMAIN HexUpper : HexUpper[i] = ch) + 9
HexDecode(text) ==
    IF Len(text) % 2 # 0
    THEN [ok |-> FALSE, bytes |-> <<>>, why |-> "Odd number of digits"]
    ELSE IF \E i \in DOMAIN text : ~IsHexDigit(text[i])
    THEN [ok |-> FALSE, bytes |-> <<>>, why |-> "Invalid character"]
    ELSE [ok |-> TRUE,
          bytes |-> [k \in 1..(Len(text) \div 2) |->
                        16 * HexVal(text[2 * k - 1]) + HexVal(text[2 * k])],
          why |-> ""]

\* Keys of the custodian whose public key is well formed, has an odd number
\* of digits, holds a character that is no hex digit, or decodes to 32 or to
\* 34 bytes.
BuildCatalog ==
    { Key(K1, <<"k", "y">>, "ns1", PublicKeyText("2")),
      Key(K2, <<"o", "d", "d">>, "ns1", Tail(PublicKeyText("2"))),
      Key(K3, <<"b", "a", "d">>, "ns1", <<"0", "x">> \o Tail(Tail(PublicKeyText("3")))),
      Key(K4, <<"s", "h", "o", "r", "t">>, "ns1", Tail(Tail(PublicKeyText("2")))),
      Key(K4, <<"l", "o", "n", "g">>, "ns1", <<"0", "0">> \o PublicKeyText("3")) }

\* What .popsigner(api_key, key_name_or_id, config) was given, None when it
\* was not called.
NoPopsigner == [some |-> FALSE, val |-> <<>>]
Popsigner(wanted) == [some |-> TRUE, val |-> wanted]
BuildConfigs ==
    { NoPopsigner }
    \cup { Popsigner(arg) : arg \in { <<"k", "y">>, <<"o", "d", "d">>, <<"b", "a", "d">>,
                                 <<"s", "h", "o", "r", "t">>, <<"l", "o", "n", "g">>,
                                 <<"n", "o", "n", "e">>, <<"A", "1">>, <<"b", "2">> } }

\* Result<POPSignerSigner>
NoSigner == [key_id |-> <<>>, key_name |-> <<>>, public_key |-> <<>>,
             celestia_address |-> <<>>]
SelfOk(self) == [ok |-> TRUE, signer |-> self, err |-> NoError]
SelfErr(e) == [ok |-> FALSE, signer |-> NoSigner, err |-> e]

\* The length check of new (celestia.rs 203).
NewKeyLengthBad(public_key) == Len(public_key) # 33

\* The public keys new passes to derive_celestia_address (celestia.rs 210).
NewDerives(key) ==
    IF ~key.ok THEN <<>>
    ELSE LET public_key == HexDecode(key.key.public_key) IN
         IF ~public_key.ok \/ NewKeyLengthBad(public_key.bytes) THEN <<>>
         ELSE << public_key.bytes >>

\* new from the return of resolve_key on (celestia.rs 197-218).
NewFinish(key) ==
    IF ~key.ok THEN SelfErr(key.err)
    ELSE LET public_key == HexDecode(key.key.public_key) IN
         IF ~public_key.ok
         THEN SelfErr(Decode(<<"failed to decode public key: ", public_key.why>>))
         ELSE IF NewKeyLengthBad(public_key.bytes)
         THEN SelfErr(InvalidRequest(
                <<"invalid public key length: expected 33 bytes, got ",
                  ToString(Len(public_key.bytes))>>))
         ELSE LET celestia_address == DeriveCelestiaAddress(public_key.bytes) IN
              IF ~celestia_address.ok THEN SelfErr(celestia_address.err)
              ELSE SelfOk([key_id |-> key.key.id, key_name |-> key.key.name,
                           public_key |-> public_key.bytes,
                           celestia_address |-> celestia_address.val])

\* Result<Client, ClientError>: ClientError::Config(msg) and
\* ClientError::Signer(SignerError).
ClientOk(self) ==
    [ok |-> TRUE, signer |-> self, kind |-> "None", message |-> <<>>,
     inner |-> NoSignerError]
ClientConfigError(msg) ==
    [ok |-> FALSE, signer |-> NoSigner, kind |-> "Config", message |-> msg,
     inner |-> NoSignerError]
ClientSignerError(e) ==
    [ok |-> FALSE, signer |-> NoSigner, kind |-> "Signer", message |-> <<>>,
     inner |-> e]

\* build from the return of new on (celestia.rs 400-423).
BuildFinish(made) ==
    IF made.ok THEN ClientOk(made.signer)
    ELSE ClientSignerError(SignerErrorFrom(made.err))

\* The custodian holds up to MaxKeys of these keys; no call is in progress.
BuildCustodians ==
    { ks \in SeqsUpTo(BuildCatalog, MaxKeys) :
        \A i, j \in DOMAIN ks : i # j => ks[i].id # ks[j].id }
BuildResolveInit ==
    /\ custodian \in BuildCustodians
    /\ changes = 0
    /\ rpc = "idle"
    /\ key_name_or_id = <<>>
    /\ rlog = <<>>
    /\ rreplies = <<>>
    /\ available_names = <<>>
    /\ rret = KeyErr(NoError)

BuildInit ==
    /\ cpc = "idle"
    /\ popsigner_key = NoPopsigner
    /\ resolved = KeyErr(NoError)
    /\ derive_log = <<>>
    /\ new_ret = SelfErr(NoError)
    /\ build_ret = ClientConfigError(<<>>)

\* build is called: without a key it fails at once, otherwise new starts and
\* suspends in resolve_key (celestia.rs 391-402, 178-197).
BuildCall(config) ==
    /\ cpc = "idle"
    /\ popsigner_key' = config
    /\ IF config.some
       THEN /\ ResolveCall(config.val)
            /\ cpc' = "resolving"
            /\ UNCHANGED build_ret
       ELSE /\ build_ret' = ClientConfigError(<<"POPSigner API key required. Use .popsigner()">>)
            /\ cpc' = "done"
            /\ UNCHANGED resolveVars
    /\ UNCHANGED <<resolved, derive_log, new_ret>>

\* resolve_key has returned: new runs to its return and build maps its
\* error (celestia.rs 197-218, 400-402).
BuildResume ==
    /\ cpc = "resolving"
    /\ ResolveReturn
    /\ resolved' = rret
    /\ derive_log' = NewDerives(rret)
    /\ new_ret' = NewFinish(rret)
    /\ build_ret' = BuildFinish(NewFinish(rret))
    /\ cpc' = "done"
    /\ UNCHANGED popsigner_key

\* The caller takes the value of build.
BuildReturn ==
    /\ cpc = "done"
    /\ cpc' = "idle"
    /\ popsigner_key' = NoPopsigner
    /\ resolved' = KeyErr(NoError)
    /\ derive_log' = <<>>
    /\ new_ret' = SelfErr(NoError)
    /\ build_ret' = ClientConfigError(<<>>)
    /\ UNCHANGED resolveVars

(***************************************************************************)
(* Specifications.  Each one runs one part of the crate; the state of the  *)
(* other parts stays as constructed.                                       *)
(***************************************************************************)
\* Client::parse_error on one non-success answer (client.rs 258-289): the
\* status and the body of the answer, and the error returned.
ParseStatuses == {400, 401, 403, 404, 409, 429, 500, 503}
ParseBodies ==
    { NoBody }
    \cup { ErrorBody(code, msg) :
            code \in {"quota_exceeded", "not_found", "unauthorized",
                      "rate_limited", "unknown"},
            msg \in { <<"Key does not exist">>, <<"quota used up">> } }
ParseInit ==
    /\ http_status \in ParseStatuses
    /\ answer \in ParseBodies
    /\ parsed = NoError
ParseCall ==
    /\ parsed = NoError
    /\ parsed' = ParseError(http_status, answer)
    /\ UNCHANGED <<http_status, answer>>

SignerOff == SignerInit /\ signer.key_id = K1
ParseOff == http_status = 0 /\ answer = NoBody /\ parsed = NoError
ResolveOff == ResolveInit /\ custodian = <<>>
ConvertOff == lower = NoError /\ mapped = NoSignerError
BuildOff == BuildInit
AddressOff ==
    /\ addr_fn = "" /\ addr_hrp = <<>> /\ addr_data = <<>>
    /\ converted = <<>> /\ hashed = <<>> /\ addr_ret = TextErr(NoError)

NextBatch ==
    \/ \E req \in SeqsUpTo(BatchSignItems, MaxItems) :
            SignBatchCall(req) /\ UNCHANGED <<signerVars, resolveVars, convVars, addressVars, buildVars, parseVars>>
    \/ \E resp \in BatchResponses : SignBatchResume(resp) /\ UNCHANGED <<signerVars, resolveVars, convVars, addressVars, buildVars, parseVars>>
    \/ SignBatchReturn /\ UNCHANGED <<signerVars, resolveVars, convVars, addressVars, buildVars, parseVars>>

InitBatch == BatchInit /\ SignerOff /\ ResolveOff /\ ConvertOff /\ AddressOff /\ BuildOff /\ ParseOff

SpecBatch == InitBatch /\ [][NextBatch]_vars

NextSigner ==
    \/ \E c \in Callers, msg \in SignMessages :
            SignCall(c, msg) /\ UNCHANGED <<batchVars, resolveVars, convVars, addressVars, buildVars, parseVars>>
    \/ \E c \in Callers, digest \in SignDigests :
            SignDigestCall(c, digest) /\ UNCHANGED <<batchVars, resolveVars, convVars, addressVars, buildVars, parseVars>>
    \/ \E c \in Callers, reply \in SignReplies :
            SignResume(c, reply) /\ UNCHANGED <<batchVars, resolveVars, convVars, addressVars, buildVars, parseVars>>
    \/ \E c \in Callers : SignAbandon(c) /\ UNCHANGED <<batchVars, resolveVars, convVars, addressVars, buildVars, parseVars>>
    \/ \E c \in Callers : SignReturn(c) /\ UNCHANGED <<batchVars, resolveVars, convVars, addressVars, buildVars, parseVars>>

InitSigner == BatchInit /\ SignerInit /\ ResolveOff /\ ConvertOff /\ AddressOff /\ BuildOff /\ ParseOff

SpecSigner == InitSigner /\ [][NextSigner]_vars

NextResolve ==
    \/ \E key \in Catalog : CreateKey(key) /\ UNCHANGED <<batchVars, signerVars, convVars, addressVars, buildVars, parseVars>>
    \/ \E i \in 1..MaxKeys : DeleteKey(i) /\ UNCHANGED <<batchVars, signerVars, convVars, addressVars, buildVars, parseVars>>
    \/ \E arg \in ResolveArgs : ResolveCall(arg) /\ UNCHANGED <<batchVars, signerVars, convVars, addressVars, buildVars, parseVars>>
    \/ \E reply \in PendingGetReplies :
            ResolveGot(reply) /\ UNCHANGED <<batchVars, signerVars, convVars, addressVars, buildVars, parseVars>>
    \/ \E reply \in ListReplies :
            ResolveListed(reply) /\ UNCHANGED <<batchVars, signerVars, convVars, addressVars, buildVars, parseVars>>
    \/ \E reply \in ListReplies :
            ResolveNotFound(reply) /\ UNCHANGED <<batchVars, signerVars, convVars, addressVars, buildVars, parseVars>>
    \/ ResolveReturn /\ UNCHANGED <<batchVars, signerVars, convVars, addressVars, buildVars, parseVars>>

InitResolve == BatchInit /\ SignerOff /\ ResolveInit /\ ConvertOff /\ AddressOff /\ BuildOff /\ ParseOff

SpecResolve == InitResolve /\ [][NextResolve]_vars

NextConvert == Convert /\ UNCHANGED <<batchVars, signerVars, resolveVars, addressVars, buildVars, parseVars>>

InitConvert == BatchInit /\ SignerOff /\ ResolveOff /\ ConvertInit /\ AddressOff /\ BuildOff /\ ParseOff

SpecConvert == InitConvert /\ [][NextConvert]_vars

NextAddress ==
    \/ EncodeCall /\ UNCHANGED <<batchVars, signerVars, resolveVars, convVars, buildVars, parseVars>>
    \/ DeriveCall /\ UNCHANGED <<batchVars, signerVars, resolveVars, convVars, buildVars, parseVars>>

InitAddress == BatchInit /\ SignerOff /\ ResolveOff /\ ConvertOff /\ AddressInit /\ BuildOff /\ ParseOff

SpecAddress == InitAddress /\ [][NextAddress]_vars

NextBuild ==
    \/ \E config \in BuildConfigs :
            BuildCall(config) /\ UNCHANGED <<batchVars, signerVars, convVars, addressVars, parseVars>>
    \/ \E reply \in PendingGetReplies :
            ResolveGot(reply) /\ UNCHANGED <<batchVars, signerVars, convVars, addressVars, buildVars, parseVars>>
    \/ \E reply \in ListReplies :
            ResolveListed(reply) /\ UNCHANGED <<batchVars, signerVars, convVars, addressVars, buildVars, parseVars>>
    \/ \E reply \in ListReplies :
            ResolveNotFound(reply) /\ UNCHANGED <<batchVars, signerVars, convVars, addressVars, buildVars, parseVars>>
    \/ BuildResume /\ UNCHANGED <<batchVars, signerVars, convVars, addressVars, parseVars>>
    \/ BuildReturn /\ UNCHANGED <<batchVars, signerVars, convVars, addressVars, parseVars>>

InitBuild == BatchInit /\ SignerOff /\ BuildResolveInit /\ ConvertOff /\ AddressOff /\ BuildInit /\ ParseOff

SpecBuild == InitBuild /\ [][NextBuild]_vars

NextParse == ParseCall /\ UNCHANGED <<batchVars, signerVars, resolveVars, convVars, addressVars, buildVars>>

InitParse == BatchInit /\ SignerOff /\ ResolveOff /\ ConvertOff /\ AddressOff /\ BuildOff /\ ParseInit

SpecParse == InitParse /\ [][NextParse]_vars

(***************************************************************************)
(* Properties of sign_batch.                                               *)
(***************************************************************************)
Marked(signatures) == { i \in DOMAIN signatures : signatures[i].error.some }
Unmarked(signatures) == DOMAIN signatures \ Marked(signatures)
Decodable(text) == Base64Decode(text).ok
Replied == bpc = "done" /\ response.ok

\* C1: sign_batch fails with BatchPartialFailure exactly when the response
\* holds at least one error-marked entry and no unmarked one; the error then
\* carries failed = number of marked entries and total = number of request
\* items.  With an unmarked entry and every unmarked entry decodable it
\* returns Ok.
C1_AllFailedPolicy ==
    /\ bpc = "done" /\ ~response.ok => ret.err.kind # "BatchPartialFailure"
    /\ Replied =>
        LET sigs == response.val IN
        /\ (~ret.ok /\ ret.err.kind = "BatchPartialFailure")
            <=> (Marked(sigs) # {} /\ Unmarked(sigs) = {})
        /\ ret.err.kind = "BatchPartialFailure" =>
            /\ ret.err.failed = Cardinality(Marked(sigs))
            /\ ret.err.total = Len(request)
        /\ ( /\ Unmarked(sigs) # {}
             /\ \A i \in Unmarked(sigs) : Decodable(sigs[i].signature) )
            => ret.ok

C1_Witness ==
    /\ Replied
    /\ Len(request) = 2
    /\ Len(response.val) = 3
    /\ Unmarked(response.val) = {}
    /\ ret.err = BatchPartialFailure(3, 2)

\* The number of items (entries) of a sequence that use key id k.
CountKey(seq, k) == Cardinality({ i \in DOMAIN seq : seq[i].key_id = k })
\* The response holds exactly one entry per submitted item, in any order.
OneEntryPerItem ==
    /\ Len(response.val) = Len(request)
    /\ \A k \in KeyIds : CountKey(response.val, k) = CountKey(request, k)

\* C2: N >= 1 items, exactly one entry per item, k entries error-marked and
\* N-k with a well-formed signature: k < N gives Ok with exactly N-k results,
\* k = N gives BatchPartialFailure{failed: N, total: N}.
C2_PartialFailureCounts ==
    ( /\ Replied
      /\ Len(request) >= 1
      /\ OneEntryPerItem
      /\ \A i \in Unmarked(response.val) : Decodable(response.val[i].signature) )
    => LET N == Len(request)
           k == Cardinality(Marked(response.val))
       IN IF k < N
          THEN ret.ok /\ Len(ret.val) = N - k /\ ret.err = NoError
          ELSE ret = Err(BatchPartialFailure(N, N))

C2_Witness ==
    /\ Replied
    /\ Len(request) = 2
    /\ OneEntryPerItem
    /\ request[1].key_id # request[2].key_id
    /\ response.val[1].key_id = request[2].key_id
    /\ Cardinality(Marked(response.val)) = 1
    /\ ret.ok
    /\ Len(ret.val) = 1

\* The (key id, signature, public key) of the unmarked, well-formed entry i.
EntryTriple(i) ==
    [key_id |-> response.val[i].key_id,
     signature |-> Base64Decode(response.val[i].signature).bytes,
     public_key |-> response.val[i].public_key]
Returned == { ret.val[j] : j \in DOMAIN ret.val }

\* C3 as stated: an unmarked entry with a well-formed signature is in the
\* returned value whatever the other entries contain, an undecodable
\* signature included.
C3_SuccessKeptAlways ==
    Replied =>
        \A i \in Unmarked(response.val) :
            Decodable(response.val[i].signature)
                => ret.ok /\ EntryTriple(i) \in Returned

\* C3 amended: an unmarked entry with a well-formed signature is in the
\* returned value however many other entries carry an error marker, when
\* every unmarked entry of the response decodes; when an unmarked entry does
\* not decode the call fails with Decode and returns no signature at all.
C3_SuccessKeptUnlessDecodeFails ==
    Replied =>
        IF \A i \in Unmarked(response.val) : Decodable(response.val[i].signature)
        THEN \A i \in Unmarked(response.val) : ret.ok /\ EntryTriple(i) \in Returned
        ELSE ~ret.ok /\ ret.err.kind = "Decode" /\ ret.val = <<>>

C3_Witness ==
    /\ Replied
    /\ Len(response.val) = 3
    /\ Marked(response.val) = {1, 3}
    /\ Decodable(response.val[2].signature)
    /\ ret.ok
    /\ EntryTriple(2) \in Returned

\* The entries without an error marker, in the order of the response.
UnmarkedSeq == SelectSeq(response.val, LAMBDA e : ~e.error.some)

\* C4: an Ok result is exactly the sequence of the unmarked entries, in the
\* order of the response, each with the entry's key id, the bytes its
\* signature text encodes and its public key; marked entries are left out
\* and only counted.
C4_OkIsUnmarkedInOrder ==
    Replied /\ ret.ok =>
        /\ Len(ret.val) = Len(UnmarkedSeq)
        /\ \A j \in DOMAIN ret.val :
            /\ ret.val[j].key_id = UnmarkedSeq[j].key_id
            /\ Base64Encode(ret.val[j].signature) = UnmarkedSeq[j].signature
            /\ ret.val[j].public_key = UnmarkedSeq[j].public_key
        /\ BatchLoop(response.val, 1, <<>>, 0).errors
            = Len(response.val) - Len(UnmarkedSeq)

C4_Witness ==
    /\ Replied
    /\ ret.ok
    /\ Len(response.val) = 3
    /\ Marked(response.val) = {2}
    /\ response.val[1].key_id # response.val[3].key_id
    /\ Len(ret.val) = 2
    /\ ret.val[1].signature = SigDead
    /\ ret.val[2].key_id = response.val[3].key_id

\* C5: every call issues exactly one remote request, and it carries every
\* submitted item (key id, encoded message, prehashed flag), whatever the
\* number of items and the outcome: no split, nothing re-sent.
C5_OneRequestPerBatch ==
    /\ bpc = "idle" => posted = <<>>
    /\ bpc \in {"awaiting", "done"} =>
        /\ Len(posted) = 1
        /\ posted[1].path = "/v1/sign/batch"
        /\ Len(posted[1].body) = Len(request)
        /\ \A i \in DOMAIN request :
            /\ posted[1].body[i].key_id = request[i].key_id
            /\ Base64Decode(posted[1].body[i].data).ok
            /\ Base64Decode(posted[1].body[i].data).bytes = request[i].data
            /\ posted[1].body[i].prehashed = request[i].prehashed

C5_Witness ==
    /\ bpc = "done"
    /\ ~ret.ok
    /\ Len(request) = 2
    /\ request[1].prehashed /\ ~request[2].prehashed
    /\ Len(posted) = 1
    /\ Len(posted[1].body) = 2

(***************************************************************************)
(* Properties of Signer::sign and Signer::sign_digest.                     *)
(***************************************************************************)
\* The remote requests caller c has issued with the given prehashed flag.
PostsBy(c, prehashed) ==
    { i \in DOMAIN sposted :
        sposted[i].caller = c /\ sposted[i].prehashed = prehashed }
\* The calls of caller c of the given operation and argument length.
CallsBy(c, op, n) == { j \in DOMAIN calls : calls[j] = <<c, op, n>> }
SignCallsBy(c) == { j \in DOMAIN calls : calls[j][1] = c /\ calls[j][2] = "sign" }
\* Caller c is in an operation that got past the local checks.
Remote(c) == sop[c] = "sign" \/ (sop[c] = "sign_digest" /\ Len(sarg[c]) = 32)
SignFailureKinds ==
    {"Network", "Authentication", "KeyNotFound", "SigningFailed", "RateLimited"}

\* C6: sign_digest with a digest of a length other than 32 fails with
\* InvalidInput and issues no remote request; with exactly 32 bytes it
\* issues the remote sign request and fails as sign fails: on the same reply
\* it returns what sign returns.
C6_DigestLengthChecked ==
    /\ \A c \in Callers :
        /\ sop[c] = "sign_digest" /\ Len(sarg[c]) # 32 =>
            /\ spc[c] = "done"
            /\ ~sret[c].ok
            /\ sret[c].err.kind = "InvalidInput"
        /\ sop[c] = "sign_digest" /\ Len(sarg[c]) = 32 =>
            /\ spc[c] \in {"awaiting", "done"}
            /\ \E i \in PostsBy(c, TRUE) : sposted[i].data = Base64Encode(sarg[c])
            /\ spc[c] = "done" /\ ~sret[c].ok => sret[c].err.kind \in SignFailureKinds
        /\ Cardinality(PostsBy(c, TRUE)) = Cardinality(CallsBy(c, "sign_digest", 32))
    /\ \A a, b \in Callers :
        ( /\ spc[a] = "done" /\ sop[a] = "sign"
          /\ spc[b] = "done" /\ sop[b] = "sign_digest" /\ Len(sarg[b]) = 32
          /\ sreply[a] = sreply[b] )
        => sret[a] = sret[b]

C6_Witness ==
    /\ spc["a"] = "done" /\ sop["a"] = "sign_digest" /\ Len(sarg["a"]) = 33
    /\ sret["a"].err.kind = "InvalidInput"
    /\ spc["b"] = "done" /\ sop["b"] = "sign_digest" /\ Len(sarg["b"]) = 32
    /\ sret["b"].err.kind = "RateLimited"
    /\ Len(calls) = 3
    /\ \E j \in DOMAIN calls : calls[j] = <<"a", "sign_digest", 31>>
    /\ Len(sposted) = 1

\* The SignerError kind a reply of the remote request maps to.
ExpectedKind(reply) ==
    IF reply.ok THEN "SigningFailed"    \* the signature text did not decode
    ELSE CASE reply.err.kind = "Unauthorized" -> "Authentication"
           [] reply.err.kind = "RateLimited" -> "RateLimited"
           [] reply.err.kind = "Http" -> "Network"
           [] OTHER -> "SigningFailed"

\* C7: every sign call and every sign_digest call with a 32-byte digest
\* issues exactly one remote sign request for the key id fixed at
\* construction (prehashed = false for sign, true for sign_digest) and returns
\* that request's signature bytes or its mapped error; nothing is cached or
\* retried, so k calls make k requests.
C7_OneRequestPerSignCall ==
    /\ Len(sposted)
        = Cardinality({ j \in DOMAIN calls : calls[j][2] = "sign" \/ calls[j][3] = 32 })
    /\ \A i \in DOMAIN sposted :
            sposted[i].path = <<"/v1/keys/", signer.key_id, "/sign">>
    /\ \A c \in Callers :
        /\ Cardinality(PostsBy(c, FALSE)) = Cardinality(SignCallsBy(c))
        /\ Cardinality(PostsBy(c, TRUE)) = Cardinality(CallsBy(c, "sign_digest", 32))
        /\ spc[c] # "idle" /\ Remote(c) =>
            \E i \in PostsBy(c, sop[c] = "sign_digest") :
                sposted[i].data = Base64Encode(sarg[c])
        /\ spc[c] = "done" /\ Remote(c) =>
            IF sreply[c].ok /\ Decodable(sreply[c].signature)
            THEN /\ sret[c].ok
                 /\ Base64Encode(sret[c].val) = sreply[c].signature
            ELSE /\ ~sret[c].ok
                 /\ sret[c].err.kind = ExpectedKind(sreply[c])

C7_Witness ==
    /\ Len(calls) = 3
    /\ calls[1] = <<"a", "sign", 2>>
    /\ calls[2] = <<"b", "sign_digest", 32>>
    /\ calls[3] = <<"a", "sign", 2>>
    /\ spc["a"] = "done" /\ sret["a"].err.kind = "RateLimited"
    /\ spc["b"] = "done" /\ sret["b"].ok /\ sret["b"].val = SigDead
    /\ Len(sposted) = 3
    /\ sposted[1].data = sposted[3].data

(***************************************************************************)
(* Properties of resolve_key.                                              *)
(***************************************************************************)
IsList(req) == req.method = "GET" /\ req.path[1] # "/v1/keys/"
\* text occurs in message as a run of characters.
Contains(message, text) ==
    \E i \in 0..(Len(message) - Len(text)) :
        SubSeq(message, i + 1, i + Len(text)) = text

\* C8: for an argument that parses as a key identifier resolve_key issues
\* exactly one get-by-id request and never a list request, and returns that
\* request's outcome unchanged: a failed get is not followed by a lookup by
\* name.
C8_IdentifierResolvesByGet ==
    rpc # "idle" /\ ParseUuid(key_name_or_id).ok =>
        /\ Len(rlog) = 1
        /\ rlog[1].method = "GET"
        /\ rlog[1].path[1] = "/v1/keys/"
        /\ Tail(rlog[1].path) = [i \in DOMAIN key_name_or_id |-> ToLower(key_name_or_id[i])]
        /\ \A i \in DOMAIN rlog : ~IsList(rlog[i])
        /\ rpc \in {"get", "done"}
        /\ rpc = "done" => Len(rreplies) = 1 /\ rret = rreplies[1]

C8_Witness ==
    /\ rpc = "done"
    /\ key_name_or_id = <<"A", "1">>
    /\ rlog = << [method |-> "GET", path |-> <<"/v1/keys/", "a", "1">>] >>
    /\ ~rret.ok
    /\ rret.err.kind = "Api"
    /\ rret.err.status_code = 404
    /\ Len(custodian) = 2

\* C9: for an argument that does not parse as a key identifier resolve_key
\* lists all keys (no namespace filter) and returns a key whose name equals
\* the argument exactly; a failed listing's error is returned; when no
\* listed name is equal it fails with KeyNotFound and the message contains
\* the argument.
C9_NameResolvesByExactMatch ==
    rpc # "idle" /\ ~ParseUuid(key_name_or_id).ok =>
        /\ rlog[1] = [method |-> "GET", path |-> <<"/v1/keys">>]
        /\ \A i \in DOMAIN rlog : IsList(rlog[i])
        /\ rpc = "done" =>
            LET first == rreplies[1] IN
            IF ~first.ok
            THEN rret = KeyErr(first.err) /\ Len(rlog) = 1
            ELSE IF \E i \in DOMAIN first.keys : first.keys[i].name = key_name_or_id
            THEN /\ rret.ok
                 /\ rret.key.name = key_name_or_id
                 /\ \E i \in DOMAIN first.keys : first.keys[i] = rret.key
                 /\ Len(rlog) = 1
            ELSE /\ ~rret.ok
                 /\ rret.err.kind = "KeyNotFound"
                 /\ Contains(rret.err.message, key_name_or_id)

C9_Witness ==
    /\ rpc = "done"
    /\ key_name_or_id = <<"K", "Y">>
    /\ rreplies[1].ok
    /\ Len(rreplies[1].keys) = 2
    /\ rreplies[1].keys[1].name = <<"K", "y">>
    /\ rreplies[1].keys[2].name = <<"k", "y">>
    /\ rret.err.kind = "KeyNotFound"
    /\ Contains(rret.err.message, <<"key '", "K", "Y", "' not found (available: [">>)

\* C10: when no key name matches, resolve_key fails with KeyNotFound whether
\* or not the second listing succeeds: when it fails the error is still
\* KeyNotFound, with no names, and never the listing's own error.
C10_NotFoundSurvivesListingFailure ==
    ( /\ rpc = "done"
      /\ ~ParseUuid(key_name_or_id).ok
      /\ rreplies[1].ok
      /\ \A i \in DOMAIN rreplies[1].keys : rreplies[1].keys[i].name # key_name_or_id )
    => /\ Len(rreplies) = 2
       /\ ~rret.ok
       /\ rret.err.kind = "KeyNotFound"
       /\ ~rreplies[2].ok =>
            /\ available_names = <<>>
            /\ rret.err # rreplies[2].err
            /\ rret.err.message
                = <<"key '">> \o key_name_or_id \o <<"' not found (available: [", "])">>

C10_Witness ==
    /\ rpc = "done"
    /\ key_name_or_id = <<"k">>
    /\ Len(rreplies) = 2
    /\ rreplies[1].ok
    /\ Len(rreplies[1].keys) = 2
    /\ ~rreplies[2].ok
    /\ rreplies[2].err.kind = "Unauthorized"
    /\ rret.err.kind = "KeyNotFound"
    /\ available_names = <<>>

\* C11: resolving a well-formed key identifier that names no key of the
\* custodian (the service answers 404) fails with the KeyNotFound kind, and
\* the error converts to SignerError::KeyNotFound.
C11_AbsentIdIsKeyNotFound ==
    ( /\ rpc = "done"
      /\ ParseUuid(key_name_or_id).ok
      /\ ~rreplies[1].ok
      /\ rreplies[1].err.status_code = 404 )
    => /\ ~rret.ok
       /\ rret.err.kind = "KeyNotFound"
       /\ SignerErrorFrom(rret.err).kind = "KeyNotFound"

(***************************************************************************)
(* Properties of the error conversion.                                     *)
(***************************************************************************)
SignerKinds ==
    {"Network", "Authentication", "KeyNotFound", "SigningFailed",
     "RateLimited", "InvalidInput", "Config"}

\* C12: the conversion yields exactly one SignerError kind for every
\* lower-level error: Unauthorized -> Authentication, RateLimited ->
\* RateLimited, KeyNotFound -> KeyNotFound with the message kept, Http ->
\* Network, SigningError and Api -> SigningFailed, every other variant ->
\* SigningFailed.
C12_ConversionTotal ==
    mapped # NoSignerError =>
        /\ mapped.kind \in SignerKinds
        /\ lower.kind = "Unauthorized" => mapped.kind = "Authentication"
        /\ lower.kind = "RateLimited" => mapped.kind = "RateLimited"
        /\ lower.kind = "KeyNotFound" =>
                mapped.kind = "KeyNotFound" /\ mapped.message = lower.message
        /\ lower.kind = "Http" => mapped.kind = "Network"
        /\ lower.kind \in {"SigningError", "Api"} => mapped.kind = "SigningFailed"
        /\ lower.kind \in {"Decode", "QuotaExceeded", "NamespaceNotFound",
                           "OrgNotFound", "InvalidRequest", "BatchPartialFailure"}
                => mapped.kind = "SigningFailed"

C12_Witness ==
    /\ lower = KeyNotFound(<<"Key does not exist">>)
    /\ mapped = SignerError("KeyNotFound", <<"Key does not exist">>)

(***************************************************************************)
(* Properties of derive_celestia_address and bech32_encode.                *)
(***************************************************************************)
Derived == addr_fn = "derive_celestia_address" /\ addr_ret # TextErr(NoError)
Encoded == addr_fn = "bech32_encode" /\ addr_ret # TextErr(NoError)
StartsWith(text, prefix) ==
    Len(text) >= Len(prefix) /\ SubSeq(text, 1, Len(prefix)) = prefix
InCharset(ch) == \E i \in DOMAIN CHARSET : CHARSET[i] = ch

\* C15: derive_celestia_address fails with an invalid-input error for every
\* public key whose length is not 33 bytes, before any hashing or encoding,
\* and returns an address for every 33-byte key.
C15_DeriveChecksKeyLength ==
    Derived =>
        IF Len(addr_data) # 33
        THEN /\ ~addr_ret.ok
             /\ addr_ret.err.kind = "InvalidRequest"
             /\ hashed = <<>>
             /\ converted = <<>>
        ELSE /\ addr_ret.ok
             /\ StartsWith(addr_ret.val, CelestiaHrp \o <<"1">>)
             /\ Len(hashed) = 2

C15_Witness ==
    /\ Derived
    /\ Len(addr_data) = 34
    /\ addr_ret.err.kind = "InvalidRequest"
    /\ hashed = <<>>

\* C16: bech32_encode succeeds and returns prefix + "1" + ceil(8n/5) data
\* characters + 6 checksum characters, every character after the separator
\* from the alphabet; empty data gives prefix + "1" + 6 characters, and 20
\* bytes with the prefix "celestia" give 47 characters starting "celestia1".
C16_EncodedShape ==
    Encoded =>
        LET n == Len(addr_data)
            body == SubSeq(addr_ret.val, Len(addr_hrp) + 2, Len(addr_ret.val))
        IN /\ addr_ret.ok
           /\ StartsWith(addr_ret.val, addr_hrp \o <<"1">>)
           /\ Len(body) = (8 * n + 4) \div 5 + 6
           /\ \A i \in DOMAIN body : InCharset(body[i])
           /\ n = 0 => Len(addr_ret.val) = Len(addr_hrp) + 7
           /\ (addr_hrp = CelestiaHrp /\ n = 20) => Len(addr_ret.val) = 47

C16_Witness ==
    /\ Encoded
    /\ addr_hrp = CelestiaHrp
    /\ addr_data = Zeros(20)
    /\ Len(addr_ret.val) = 47
    /\ StartsWith(addr_ret.val, <<"c", "e", "l", "e", "s", "t", "i", "a", "1", "q">>)

\* The data as bits, most significant bit of each byte first; bit j is 0
\* past the end.
DataBit(bytes, j) ==
    IF j > 8 * Len(bytes) THEN 0
    ELSE (bytes[(j - 1) \div 8 + 1] \div Pow2(7 - ((j - 1) % 8))) % 2
\* Group k of the bits: five bits from bit 5(k-1)+1 on, zeros past the end.
GroupAt(bytes, k) ==
    LET s == 5 * (k - 1) IN
    16 * DataBit(bytes, s + 1) + 8 * DataBit(bytes, s + 2)
    + 4 * DataBit(bytes, s + 3) + 2 * DataBit(bytes, s + 4) + DataBit(bytes, s + 5)
GroupCount(bytes) == (8 * Len(bytes) + 4) \div 5
\* The groups with the leftover bits at the top of the final group (zero
\* bits appended below them).
GroupsPaddedBelow(bytes) == [k \in 1..GroupCount(bytes) |-> GroupAt(bytes, k)]
\* The groups with zero bits put in front of the leftover bits of the final
\* group.
GroupsPaddedAbove(bytes) ==
    LET left == (8 * Len(bytes)) % 5 IN
    [k \in 1..GroupCount(bytes) |->
        IF k = GroupCount(bytes) /\ left > 0
        THEN GroupAt(bytes, k) \div Pow2(5 - left)
        ELSE GroupAt(bytes, k)]

\* C17 as stated: the data bytes are regrouped into 5-bit groups most
\* significant bit first, the final partial group left-padded with zero
\* bits; no extra group when the bits are a multiple of 5; n bytes give
\* ceil(8n/5) groups below 32.
C17_FinalGroupLeftPadded ==
    Encoded =>
        /\ converted = GroupsPaddedAbove(addr_data)
        /\ Len(converted) = GroupCount(addr_data)
        /\ \A k \in DOMAIN converted : converted[k] \in 0..31

\* C17 as amended: the leftover bits are the most significant bits of the
\* final group and the zero bits fill its least significant end.
C17_FinalGroupPaddedBelow ==
    Encoded =>
        /\ converted = GroupsPaddedBelow(addr_data)
        /\ Len(converted) = GroupCount(addr_data)
        /\ \A k \in DOMAIN converted : converted[k] \in 0..31
        /\ (8 * Len(addr_data)) % 5 = 0 => Len(converted) * 5 = 8 * Len(addr_data)

C17_Witness ==
    /\ Encoded
    /\ addr_data = <<255>>
    /\ converted = <<31, 28>>

(***************************************************************************)
(* A reference Bech32 decoder (BIP-173): split at the last "1", map the    *)
(* characters back through the alphabet, verify the checksum, drop it, and *)
(* regroup the 5-bit groups into bytes, rejecting padding of 5 bits or     *)
(* more and padding that is not zero.                                      *)
(***************************************************************************)
RefGenerators == <<996825010, 642813549, 513874426, 1027748829, 705979059>>
RefStep(chk, v) ==
    LET top == chk \div 33554432
    IN XorAll(<< (chk % 33554432) * 32, v >>
              \o [i \in 1..5 |-> IF (top \div Pow2(i - 1)) % 2 = 1
                                  THEN RefGenerators[i] ELSE 0])
RECURSIVE RefPolymod(_, _, _)
RefPolymod(values, st, hi) ==
    IF st.i > hi THEN st
    ELSE IF st.i = hi
    THEN [i |-> st.i + 1, chk |-> RefStep(st.chk, values[st.i])]
    ELSE RefPolymod(values, RefPolymod(values, st, (st.i + hi) \div 2), hi)
RefExpand(hrp) ==
    [i \in 1..(2 * Len(hrp) + 1) |->
        IF i <= Len(hrp) THEN CharCode(hrp[i]) \div 32
        ELSE IF i = Len(hrp) + 1 THEN 0
        ELSE CharCode(hrp[i - Len(hrp) - 1]) % 32]
RefSeparator(text) ==
    IF \E i \in DOMAIN text : text[i] = "1"
    THEN CHOOSE i \in DOMAIN text :
            text[i] = "1" /\ \A j \in DOMAIN text : text[j] = "1" => j <= i
    ELSE 0
RefValue(ch) == (CHOOSE i \in DOMAIN CHARSET : CHARSET[i] = ch) - 1
GroupBit(groups, j) ==
    IF j > 5 * Len(groups) THEN 0
    ELSE (groups[(j - 1) \div 5 + 1] \div Pow2(4 - ((j - 1) % 5))) % 2
RefByte(groups, k) ==
    LET s == 8 * (k - 1) IN
    128 * GroupBit(groups, s + 1) + 64 * GroupBit(groups, s + 2)
    + 32 * GroupBit(groups, s + 3) + 16 * GroupBit(groups, s + 4)
    + 8 * GroupBit(groups, s + 5) + 4 * GroupBit(groups, s + 6)
    + 2 * GroupBit(groups, s + 7) + GroupBit(groups, s + 8)
RefDecode(text) ==
    LET pos == RefSeparator(text)
        hrp == SubSeq(text, 1, pos - 1)
        body == SubSeq(text, pos + 1, Len(text))
        wellFormed == /\ pos >= 2
                      /\ Len(body) >= 6
                      /\ \A i \in DOMAIN body : InCharset(body[i])
        values == [i \in DOMAIN body |-> RefValue(body[i])]
        groups == SubSeq(values, 1, Len(values) - 6)
        count == (5 * Len(groups)) \div 8
        padding == { j \in (8 * count + 1)..(5 * Len(groups)) : TRUE }
    IN IF /\ wellFormed
          /\ RefPolymod(RefExpand(hrp) \o values, [i |-> 1, chk |-> 1],
                        Len(hrp) + 1 + Len(hrp) + Len(values)).chk = 1
          /\ Cardinality(padding) < 5
          /\ \A j \in padding : GroupBit(groups, j) = 0
       THEN [ok |-> TRUE, hrp |-> hrp, data |-> [k \in 1..count |-> RefByte(groups, k)]]
       ELSE [ok |-> FALSE, hrp |-> <<>>, data |-> <<>>]

\* C18: a reference Bech32 decoder accepts bech32_encode(prefix, d) (the
\* checksum verifies) and recovers d and the prefix exactly.
C18_RoundTrip ==
    Encoded =>
        /\ addr_ret.ok
        /\ RefDecode(addr_ret.val) = [ok |-> TRUE, hrp |-> addr_hrp, data |-> addr_data]

C18_Witness ==
    /\ Encoded
    /\ addr_hrp = CelestiaHrp
    /\ addr_data = <<165, 255, 0>>
    /\ RefDecode(addr_ret.val).ok
    /\ RefDecode(addr_ret.val).data = <<165, 255, 0>>

(***************************************************************************)
(* Properties of the signatures and of the signer's identity.              *)
(***************************************************************************)
\* C19: every signature that sign or sign_digest returns to the caller is
\* exactly 64 bytes long; a remote answer whose decoded signature has another
\* length is not returned as a successful signature.
C19_SignatureIs64Bytes ==
    \A c \in Callers :
        (spc[c] = "done" /\ sret[c].ok) => Len(sret[c].val) = 64

\* C20: under every interleaving of sign and sign_digest calls, failed and
\* abandoned ones included, no step changes the signer: public_key(),
\* address() and key_id() keep the values fixed at construction.
C20_SignerImmutable ==
    [][ /\ signer'.public_key = signer.public_key
        /\ signer'.celestia_address = signer.celestia_address
        /\ signer'.key_id = signer.key_id
        /\ signer'.key_name = signer.key_name ]_vars

C20_Witness ==
    /\ Len(calls) = 3
    /\ Len(sposted) = 3
    /\ spc["a"] = "awaiting"
    /\ spc["b"] = "done"
    /\ ~sret["b"].ok
    /\ sret["b"].err.kind = "Network"
    /\ \E i \in DOMAIN sposted : sposted[i].caller = "a" /\ i < Len(sposted)
    /\ signer.celestia_address = DeriveCelestiaAddress(signer.public_key).val

(***************************************************************************)
(* Properties of POPSignerSigner::new and ClientBuilder::build.            *)
(***************************************************************************)
Built == cpc = "done" /\ popsigner_key.some
HexText(text) == Len(text) % 2 = 0 /\ \A i \in DOMAIN text : IsHexDigit(text[i])

C14_ConstructionKindKept ==
    (Built /\ resolved.ok /\ ~build_ret.ok) =>
        /\ build_ret.kind = "Signer"
        /\ new_ret.err.kind = "InvalidRequest" => build_ret.inner.kind = "InvalidInput"
        /\ new_ret.err.kind = "Decode" => build_ret.inner.kind = "Decode"

\* C21: a signer that construction produced, while the caller holds it, has
\* a public key of 33 bytes and an address that is the Bech32 text with
\* prefix "celestia" of the 160-bit hash of the 256-bit hash of that key (a
\* reference decoder recovers the prefix and the hash); the client that build
\* returns holds the same signer.
AddressOf(self) ==
    LET decoded == RefDecode(self.celestia_address) IN
    /\ Len(self.public_key) = 33
    /\ decoded.ok
    /\ decoded.hrp = CelestiaHrp
    /\ decoded.data = Ripemd160Digest(Sha256Digest(self.public_key))
C21_SignerAddressDerived ==
    /\ new_ret.ok => AddressOf(new_ret.signer)
    /\ build_ret.ok => AddressOf(build_ret.signer) /\ build_ret.signer = new_ret.signer

C21_Witness ==
    /\ Built
    /\ build_ret.ok
    /\ build_ret.signer.key_name = <<"k", "y">>
    /\ Len(build_ret.signer.celestia_address) = 47

\* C22: a non-success answer is classified by its status first: 401 gives
\* Unauthorized and 429 RateLimited whatever the body; any other status
\* gives QuotaExceeded for the body code "quota_exceeded", otherwise Api
\* with the body's code and message and the status, and Api with code
\* "unknown" when the body cannot be parsed.
C22_StatusBeforeBody ==
    parsed # NoError =>
        /\ http_status = 401 => parsed.kind = "Unauthorized"
        /\ http_status = 429 => parsed.kind = "RateLimited"
        /\ (http_status \notin {401, 429} /\ answer.parsed /\ answer.code = "quota_exceeded")
                => parsed.kind = "QuotaExceeded" /\ parsed.message = answer.message
        /\ (http_status \notin {401, 429} /\ answer.parsed /\ answer.code # "quota_exceeded")
                => /\ parsed.kind = "Api"
                   /\ parsed.code = answer.code
                   /\ parsed.message = answer.message
                   /\ parsed.status_code = http_status
        /\ (http_status \notin {401, 429} /\ ~answer.parsed)
                => /\ parsed.kind = "Api"
                   /\ parsed.code = "unknown"
                   /\ parsed.status_code = http_status

C22_Witness ==
    /\ http_status = 429
    /\ answer.parsed
    /\ answer.code = "quota_exceeded"
    /\ parsed.kind = "RateLimited"

\* The ways to pair every entry of the response with a submitted item of
\* the same key id, no item paired twice.
Pairings ==
    { f \in [DOMAIN response.val -> DOMAIN request] :
        /\ \A i, j \in DOMAIN response.val : i # j => f[i] # f[j]
        /\ \A i \in DOMAIN response.val : response.val[i].key_id = request[f[i]].key_id }
\* Under the pairing f some item has no entry, or an error-marked one.
SomeItemUnsigned(f) ==
    \E i \in DOMAIN request :
        \A j \in DOMAIN response.val : f[j] = i => response.val[j].error.some

\* C23 as stated: for every response, when the call returns Ok and fewer
\* entries without an error marker came back for some key id than items
\* were submitted for it, the result is strictly shorter than the request.
C23_ShorterWhenUnsigned ==
    ( /\ Replied
      /\ ret.ok
      /\ \E k \in KeyIds : CountKey(UnmarkedSeq, k) < CountKey(request, k) )
    => Len(ret.val) < Len(request)

\* C23 amended: when the response holds at most one entry per submitted
\* item (its entries pair with distinct items of the same key id) and some
\* item has no entry or an error-marked one, an Ok result is strictly
\* shorter than the request.
C23_ShorterWhenPaired ==
    (Replied /\ ret.ok) =>
        \A f \in Pairings : SomeItemUnsigned(f) => Len(ret.val) < Len(request)

C23_Witness ==
    /\ Replied
    /\ ret.ok
    /\ Len(request) = 2
    /\ Len(response.val) = 2
    /\ Cardinality(Marked(response.val)) = 1
    /\ \E f \in Pairings : SomeItemUnsigned(f)
    /\ Len(ret.val) = 1

\* C24: a BatchPartialFailure reports failed = total, also when the remote
\* reordered or dropped entries (the entries of the response pair with
\* distinct submitted items).
C24_FailedEqualsTotal ==
    (bpc = "done" /\ ret.err.kind = "BatchPartialFailure" /\ Pairings # {})
        => ret.err.failed = ret.err.total

\* The request positions whose item has the key id of the result r.
ItemsOf(r) == { i \in DOMAIN request : request[i].key_id = r.key_id }

\* C25: every element of an Ok result pairs, by its key id, with exactly
\* one submitted item, so that indexing the result by key id gives back the
\* request positions, also when the remote reordered or dropped entries and
\* when two items use the same key id.
C25_ResultPairsByKeyId ==
    (Replied /\ ret.ok /\ Pairings # {}) =>
        \A j \in DOMAIN ret.val : Cardinality(ItemsOf(ret.val[j])) = 1

\* C29: with at least one item submitted an Ok result is never empty.
C29_OkIsNotEmpty ==
    (bpc = "done" /\ Len(request) >= 1 /\ ret.ok) => ret.val # <<>>

\* The values bech32_encode hands to bech32_polymod, and the state chk after
\* each of them (after none of them: 1).
PolymodValues == ExpandHrp(addr_hrp) \o converted \o <<0, 0, 0, 0, 0, 0>>
RECURSIVE PolymodTrace(_, _, _)
PolymodTrace(values, st, hi) ==
    IF st.i > hi THEN st
    ELSE IF st.i = hi
    THEN [i |-> st.i + 1,
          seen |-> Append(st.seen, PolymodRound(st.seen[st.i], values[st.i]))]
    ELSE PolymodTrace(values, PolymodTrace(values, st, (st.i + hi) \div 2), hi)
PolymodStates ==
    PolymodTrace(PolymodValues, [i |-> 1, seen |-> <<1>>], Len(PolymodValues)).seen
Radix32(groups) ==
    groups[1] * 33554432 + groups[2] * 1048576 + groups[3] * 32768
    + groups[4] * 1024 + groups[5] * 32 + groups[6]

\* C26: the checksum state starts at 1 and is below 2^30 after every value
\* (all values are below 32), so the shift by 5 of its low 25 bits stays
\* within 32 bits; the six checksum groups are below 32 and are the digits,
\* most significant first, of the final state xor 1, and they are the last
\* six characters of the encoded text.
C26_ChecksumStateThirtyBits ==
    Encoded =>
        LET groups == Checksum(addr_hrp, converted)
            states == PolymodStates
            text == addr_ret.val
        IN /\ \A i \in DOMAIN PolymodValues : PolymodValues[i] < 32
           /\ Len(states) = Len(PolymodValues) + 1
           /\ states[1] = 1
           /\ \A n \in DOMAIN states :
                /\ states[n] < 1073741824
                /\ (states[n] % 33554432) * 32 < 1073741824
           /\ Len(groups) = 6
           /\ \A i \in 1..6 : groups[i] < 32
           /\ Radix32(groups) = Xor(states[Len(states)], 1)
           /\ \A i \in 1..6 : text[Len(text) - 6 + i] = CHARSET[groups[i] + 1]

C26_Witness ==
    /\ Encoded
    /\ Len(converted) = 32
    /\ \E n \in DOMAIN PolymodStates : PolymodStates[n] >= 536870912

\* C27: the available names inside a KeyNotFound error of resolve_key never
\* hold the attempted name, whatever keys are created or deleted at the
\* custodian between the two listings.
C27_AvailableNamesLackAttempt ==
    (rpc = "done" /\ rret.err.kind = "KeyNotFound")
        => \A i \in DOMAIN available_names : available_names[i] # key_name_or_id

\* C28: when several keys of the first listing have the requested name,
\* resolve_key returns the first of them in listing order, whole: its id,
\* its name, its namespace and its public key.
C28_FirstOfSeveralNames ==
    ( /\ rpc = "done"
      /\ ~ParseUuid(key_name_or_id).ok
      /\ rreplies[1].ok )
    => LET keys == rreplies[1].keys
           named == { i \in DOMAIN keys : keys[i].name = key_name_or_id }
       IN named # {} =>
            /\ rret.ok
            /\ Len(rreplies) = 1
            /\ \E i \in named :
                /\ \A j \in named : i <= j
                /\ rret.key = keys[i]
                /\ \A j \in named : j # i => rret.key.id # keys[j].id

C28_Witness ==
    /\ rpc = "done"
    /\ key_name_or_id = <<"k", "y">>
    /\ rreplies[1].ok
    /\ Len(rreplies[1].keys) = 2
    /\ rreplies[1].keys[1].name = <<"k", "y">>
    /\ rreplies[1].keys[2].name = <<"k", "y">>
    /\ rreplies[1].keys[1].namespace_id = "ns2"
    /\ rret.ok
    /\ rret.key.id = K2
    /\ rret.key.public_key = PublicKeyText("3")

\* C30: every lower-level error that is_auth_error classifies as an
\* authentication error converts to SignerError::Authentication.
C30_AuthErrorsConvert ==
    (mapped # NoSignerError /\ IsAuthError(lower)) => mapped.kind = "Authentication"

====
